---- MODULE Spec2Model ----
(***************************************************************************)
(* A model of the response-normalization and rendering core of the        *)
(* `define` command-line dictionary: the canonical result model and its   *)
(* primary-result sort (package source), result validation, the text      *)
(* renderer (package printer over PanicWriter), and the Oxford and        *)
(* Webster normalizers.  Each component has its own variables, initial    *)
(* condition and specification; the variables of the other components     *)
(* stay at their idle values.                                              *)
(***************************************************************************)
EXTENDS FiniteSets, Integers, Sequences, TLC

VARIABLES
    \* source.DictionaryResults.SortForPrimaryResult
    sWord,          \* the word argument
    sInput,         \* the list *r held before the first call
    sResults,       \* the list *r
    sCalls,         \* the lists *r held after each call so far
    \* source.ValidateDictionaryResults / ValidateAndReturnDictionaryResults
    vWord,          \* the word argument
    vResults,       \* the results argument: [isNil, items]
    vPc,            \* "start", "validated", "returned"
    vErr,           \* the returned error, NoError for nil
    vReturned,      \* the results returned by ValidateAndReturn...
    \* printer.ResultPrinter.PrintDictionaryResults
    pResults,         \* the results argument
    pIndentStepSize,  \* PanicWriter.indentStepSize of p.out
    pPc,              \* "result", "entry", "done" or "panic"
    pRi,              \* position of the loop over results
    pEi,              \* position of the loop over result.Entries
    pResultHeader,    \* resultHeader
    pLastEntryHeader, \* lastEntryHeader
    pLastWord,        \* lastWord
    pOut,             \* the writes the inner io.Writer has received
    \* oxford.apiLexicalEntry.toEntry
    oxLexicalEntry,   \* the receiver e
    oxPc,             \* "start" or "done"
    oxSourceEntry,    \* the source.DictionaryEntry returned
    \* webster.apiSenseSequence.toSenses
    wbSseq,           \* the part of the receiver s the loops have read:
                      \* a list of apiSense, each a list of containers
    wbPc,             \* "sseq" (outer loop), "sense" (inner loop), "done"
    wbSenses,         \* senses
    wbLastSenseNumber, \* lastSenseNumber
    \* webster.apiDefinitionContainer.UnmarshalXML (the XML decoder)
    xTokens,          \* the start elements subDecoder.Token has returned
    xPc,              \* "tokens" (in the loop), "done" or "panic"
    xSenses,          \* senses, the apiSense values pointed to
    xSubsenses,       \* subsenses, the apiSense values pointed to
    xSenseIndex,      \* senseIndex
    xCurrentSense,    \* currentSense: "nil", "sense" (the last of senses)
                      \* or "subsense" (the last of subsenses)
    xIsDefinitionContinuation, \* isDefinitionContinuation
    xOut,             \* s.senses
    \* webster.apiDefinitionResults.toResults
    wrApiResults,     \* the receiver r
    wrPc,             \* "start" or "done"
    wrResults,        \* the []source.DictionaryResult returned
    \* oxford.api.Define with its inflection fallback
    odQuery,          \* the word the caller asked for
    odWord,           \* the word argument of the running call of Define
    odPc,             \* "define", "search" or "returned"
    odUpstream,       \* what the Oxford API has answered for each word
    odResults,        \* the results returned, <<>> with an error
    odErr,            \* the error returned, NoError for nil
    \* source.Pronunciations.String, printer.getPronunciationsText and
    \* source.AttributedText.String
    fPronunciations,  \* the Pronunciations value: [isNil, items]
    fAttributedText,  \* the AttributedText value
    fReturned,        \* the texts the calls made so far have returned
    \* io.PanicWriter under a client that writes and indents
    pwWriters,        \* the PanicWriter values allocated and in use
    pwStack,          \* the writer of each running callback, innermost
                      \* last, as places in pwWriters; the first is the
                      \* client's own writer
    pwCalls,          \* per running callback: the spaces asked for and the
                      \* spaces the enclosing writer had at the call
    pwWrites,         \* the Write calls the sink has received, each with
                      \* the error it returned
    pwLastReturn,     \* the enclosing writer's spaces at the call and
                      \* after the return of the last returned callback
    pwPc,             \* "running", "done" or "panic"
    \* config.NewFromRuntime
    cfArgs,           \* os.Args as the flag set sees them
    cfEnviron,        \* the DEFINE_APP_* environment variables
    cfFile,           \* the config file found, and the keys it holds
    cfDefaults,       \* the defaults argument
    cfCommandLine,    \* *commandLineConfig after flags.Parse
    cfFileConfig,     \* fileConfig
    cfConf,           \* the Configuration returned
    cfErr,            \* whether a non-nil error is returned
    cfPc,             \* "start", "parsed", "loaded" or "returned"
    \* registry.ProvidePreferred
    ppPreferred,      \* the preferredProvider argument
    ppConfs,          \* the confs argument
    ppI,              \* the place of the range loop in confs
    ppSrc,            \* src
    ppErr,            \* whether err is non-nil
    ppProvided,       \* the keys Provide was called with, in order
    ppPc,             \* "start", "loop" or "returned"
    \* registry.Finalize
    fzDynamic,        \* the keys of the configurations with a Finalize method
    fzCalls,          \* the confs of every call of registry.Finalize so far
    fzOnce,           \* whether finalized.Do has run its function
    fzFinalized,      \* the keys of the configurations Finalize was invoked on
    \* oxford apiSearchResponse.toResults
    osResults,        \* r.Results as decoded
    osApiResults,     \* apiResults after sort.Slice
    osSourceResults,  \* sourceResults
    osPc,             \* "start", "sorted" or "returned"
    \* webster api.Define and api.Search
    waWord,           \* the word argument
    waBody,           \* the items of the JSON array the API answers with
    waDefine,         \* what Define returned, once called
    waSearch          \* what Search returned, once called, and its limit

varsSort     == <<sWord, sInput, sResults, sCalls>>
varsValidate == <<vWord, vResults, vPc, vErr, vReturned>>
varsPrint    == <<pResults, pIndentStepSize, pPc, pRi, pEi, pResultHeader,
                 pLastEntryHeader, pLastWord, pOut>>
varsOxford   == <<oxLexicalEntry, oxPc, oxSourceEntry>>
varsWebster  == <<wbSseq, wbPc, wbSenses, wbLastSenseNumber>>
varsWebsterResults == <<wrApiResults, wrPc, wrResults>>
varsOxfordDefine == <<odQuery, odWord, odPc, odUpstream, odResults, odErr>>
varsFormat   == <<fPronunciations, fAttributedText, fReturned>>
varsWriter   == <<pwWriters, pwStack, pwCalls, pwWrites, pwLastReturn, pwPc>>
varsConfig   == <<cfArgs, cfEnviron, cfFile, cfDefaults, cfCommandLine,
                 cfFileConfig, cfConf, cfErr, cfPc>>
varsProvide  == <<ppPreferred, ppConfs, ppI, ppSrc, ppErr, ppProvided, ppPc>>
varsFinalize == <<fzDynamic, fzCalls, fzOnce, fzFinalized>>
varsOxfordSearch == <<osResults, osApiResults, osSourceResults, osPc>>
varsWebsterApi == <<waWord, waBody, waDefine, waSearch>>
varsXml      == <<xTokens, xPc, xSenses, xSubsenses, xSenseIndex,
                 xCurrentSense, xIsDefinitionContinuation, xOut>>
vars         == <<varsSort, varsValidate, varsPrint, varsOxford, varsWebster,
                 varsXml,
                 varsWebsterResults,
                 varsOxfordDefine,
                 varsFormat,
                 varsWriter,
                 varsConfig,
                 varsProvide,
                 varsFinalize,
                 varsOxfordSearch,
                 varsWebsterApi>>

(***************************************************************************)
(* Bounds                                                                  *)
(***************************************************************************)
MaxResults   == 3   \* longest results list handed to the sort
MaxSortCalls == 2   \* consecutive calls of SortForPrimaryResult
MaxValidated == 2   \* longest results list handed to validation
MaxValEntries == 2  \* most entries of a validated result
MaxEntries     == 3 \* most entries of a rendered result
MaxSenses      == 2 \* most senses of a rendered entry
MaxDefinitions == 2 \* most definitions of a rendered sense
MaxExamples    == 3 \* most examples of a rendered sense or sub-sense
MaxSubSenses   == 2 \* most sub-senses of a rendered sense
MaxApiDepth     == 3 \* deepest nesting of senses in an Oxford payload
MaxApiSubsenses == 2 \* most subsenses of one Oxford sense
MaxApiSenses    == 2 \* most senses of one entry of an Oxford lexical entry
MaxSseqSenses     == 2 \* most apiSense groups of a Webster sense sequence
MaxSseqContainers == 3 \* most containers of a Webster sense sequence
MaxApiResults     == 3 \* most entries of a Webster definition response
MaxSearchResults  == 2 \* most results of an Oxford search response
MaxPronunciations == 3 \* most items of a formatted pronunciation list
MaxIndentDepth    == 2 \* most callbacks of IndentWrites nested at a time
MaxWrites         == 2 \* most Write calls on the sink of a PanicWriter
MaxProviders      == 3 \* most configurations given to ProvidePreferred
MaxFinalizeCalls  == 2 \* most calls of registry.Finalize
MaxScoredResults  == 3 \* most results of a scored Oxford search response
MaxResponseItems  == 3 \* most items of a Webster API response
MaxXmlTokens      == 5 \* most start elements of a Webster XML def element

(***************************************************************************)
(* Helpers over sequences                                                  *)
(***************************************************************************)
SeqsUpTo(S, n) == UNION {[1..k -> S] : k \in 0..n}

Range(s) == {s[i] : i \in 1..Len(s)}

RECURSIVE Concat(_)
Concat(ss) == IF ss = <<>> THEN <<>> ELSE Head(ss) \o Concat(Tail(ss))

(***************************************************************************)
(* Canonical data model (package source)                                   *)
(***************************************************************************)
NoWord == ""

\* A DictionaryEntry that carries nothing but its word.
BareEntry(word) ==
    [Word |-> word, LexicalCategory |-> "", Pronunciations |-> <<>>,
     Senses |-> <<>>, Etymologies |-> <<>>, Synonyms |-> <<>>,
     Antonyms |-> <<>>]

DictionaryResult(language, word, entries) ==
    [Language |-> language, Word |-> word, Entries |-> entries]

(***************************************************************************)
(* Primary-result sort                                                     *)
(***************************************************************************)
\* "test" with an acute accent on the e, written in ASCII.
AccentedTest  == "t\\u00e9st"
SortWords     == {"test", "Test", AccentedTest, "nah"}
SortLanguages == {"en", "es"}
SortResultSet ==
    {DictionaryResult(l, w, <<BareEntry(w)>>) :
        l \in SortLanguages, w \in {"test", "Test", "nah"}}
        \cup {DictionaryResult("en", AccentedTest, <<BareEntry(AccentedTest)>>)}

IsSortedForPrimaryResult(word, r) ==
    Len(r) < 1 \/ r[1].Word = word

\* The loop of SortForPrimaryResult: the index of the first result at or
\* after i whose Word is word, 0 for a nil matchIndex.
RECURSIVE MatchIndexFrom(_, _, _)
MatchIndexFrom(word, r, i) ==
    IF i > Len(r) THEN 0
    ELSE IF r[i].Word = word THEN i
    ELSE MatchIndexFrom(word, r, i + 1)

MatchIndex(word, r) == MatchIndexFrom(word, r, 1)

\* A mutation: the matched result is swapped with the first one.
SortForPrimaryResultSwap(word, r) ==
    IF IsSortedForPrimaryResult(word, r) THEN r
    ELSE LET i == MatchIndex(word, r) IN
         IF i # 0 /\ i # 1
         THEN [r EXCEPT ![1] = r[i], ![i] = r[1]]
         ELSE r

\* A mutation: the matched result is moved to the last position.
SortForPrimaryResultBack(word, r) ==
    IF IsSortedForPrimaryResult(word, r) THEN r
    ELSE LET i == MatchIndex(word, r) IN
         IF i # 0 /\ i # 1
         THEN SubSeq(r, 1, i - 1) \o SubSeq(r, i + 1, Len(r)) \o <<r[i]>>
         ELSE r

\* append(DictionaryResults{match}, append((*r)[:i], (*r)[i+1:]...)...);
\* indices here are one more than the Go ones.
SortForPrimaryResult(word, r) ==
    IF IsSortedForPrimaryResult(word, r) THEN r
    ELSE LET i == MatchIndex(word, r) IN
         IF i # 0 /\ i # 1
         THEN LET match == r[i]
                  rest  == SubSeq(r, 1, i - 1) \o SubSeq(r, i + 1, Len(r))
              IN  <<match>> \o rest
         ELSE r

InitSort ==
    /\ sWord \in SortWords
    /\ sInput \in SeqsUpTo(SortResultSet, MaxResults)
    /\ sResults = sInput
    /\ sCalls = <<>>

CallSortForPrimaryResult ==
    /\ Len(sCalls) < MaxSortCalls
    /\ sResults' = SortForPrimaryResult(sWord, sResults)
    /\ sCalls' = Append(sCalls, sResults')
    /\ UNCHANGED <<sWord, sInput>>

\* The list the n-th call was applied to.
SortArgument(n) == IF n = 1 THEN sInput ELSE sCalls[n - 1]

\* The positions of r whose Word is exactly word.
ExactMatches(word, r) == {i \in 1..Len(r) : r[i].Word = word}

\* r without its k-th element.
Without(r, k) == [j \in 1..(Len(r) - 1) |-> IF j < k THEN r[j] ELSE r[j + 1]]

\* How often x occurs in r.
Occurrences(x, r) == Cardinality({i \in 1..Len(r) : r[i] = x})

\* C1: SortForPrimaryResult(w, R) is R[k] followed by the other elements of
\* R in their original order, k being the first index whose Word is exactly
\* w; with no such k, or with k the first index, R is unchanged.  The result
\* is a permutation of R of the same length.
C1_SortMovesFirstExactMatch ==
    \A n \in 1..Len(sCalls) :
        LET R   == SortArgument(n)
            out == sCalls[n]
            M   == ExactMatches(sWord, R)
        IN  /\ Len(out) = Len(R)
            /\ \A x \in Range(R) \cup Range(out) :
                   Occurrences(x, out) = Occurrences(x, R)
            /\ IF M = {} \/ 1 \in M
               THEN out = R
               ELSE LET k == CHOOSE i \in M : \A j \in M : i <= j
                    IN  /\ out[1] = R[k]
                        /\ Without(out, 1) = Without(R, k)

\* A call has moved a result that was neither first nor last to the front,
\* past a result whose word differs from the query only by case.
C1_Witness ==
    /\ Len(sCalls) >= 1
    /\ Len(sInput) = 3
    /\ sWord = "test"
    /\ sInput[1].Word = "Test"
    /\ sInput[2].Word = "test"
    /\ sCalls[1] = <<sInput[2], sInput[1], sInput[3]>>

\* C2: applying SortForPrimaryResult twice yields the same list as applying
\* it once, and after one application the list is sorted for the primary
\* result whenever the input is empty or holds a result whose Word is w.
C2_SortIdempotent ==
    /\ Len(sCalls) >= 2 => sCalls[2] = sCalls[1]
    /\ Len(sCalls) >= 1 =>
          (sInput = <<>> \/ ExactMatches(sWord, sInput) # {}
              => IsSortedForPrimaryResult(sWord, sCalls[1]))

\* The second call has returned, after a first call that reordered a list
\* holding two results with the queried word.
C2_Witness ==
    /\ Len(sCalls) = 2
    /\ sCalls[1] # sInput
    /\ Cardinality(ExactMatches(sWord, sInput)) = 2

IdleSort ==
    /\ sWord = NoWord
    /\ sInput = <<>>
    /\ sResults = <<>>
    /\ sCalls = <<>>

(***************************************************************************)
(* Result validation                                                       *)
(***************************************************************************)
NoError == [kind |-> "nil"]
EmptyResultError(word) == [kind |-> "EmptyResultError", Word |-> word]

NilResults == [isNil |-> TRUE, items |-> <<>>]
Results(items) == [isNil |-> FALSE, items |-> items]

ValidateWords     == {"", "test"}
ValidateLanguages == {"en", "test"}
\* Results with zero to MaxValEntries entries.
ValidateResultSet ==
    {DictionaryResult(l, "test", es) :
        l \in ValidateLanguages,
        es \in SeqsUpTo({BareEntry("test")}, MaxValEntries)}

\* A mutation: only a nil list is rejected.
ValidateDictionaryResultsNilOnly(word, results) ==
    IF results.isNil THEN EmptyResultError(word) ELSE NoError

\* if len(results) < 1 { return &EmptyResultError{word} }; return nil
\* (the length of a nil slice is 0).
ValidateDictionaryResults(word, results) ==
    IF Len(results.items) < 1 THEN EmptyResultError(word) ELSE NoError

\* The pair <<results, error>> returned.
ValidateAndReturnDictionaryResults(word, results) ==
    LET err == ValidateDictionaryResults(word, results) IN
    IF err # NoError THEN <<NilResults, err>> ELSE <<results, NoError>>

InitValidate ==
    /\ vWord \in ValidateWords
    /\ vResults \in {NilResults}
          \cup {Results(items) :
                  items \in SeqsUpTo(ValidateResultSet, MaxValidated)}
    /\ vPc = "start"
    /\ vErr = NoError
    /\ vReturned = NilResults

CallValidateDictionaryResults ==
    /\ vPc = "start"
    /\ vErr' = ValidateDictionaryResults(vWord, vResults)
    /\ vPc' = "validated"
    /\ UNCHANGED <<vWord, vResults, vReturned>>

CallValidateAndReturnDictionaryResults ==
    /\ vPc = "start"
    /\ LET ret == ValidateAndReturnDictionaryResults(vWord, vResults) IN
          /\ vReturned' = ret[1]
          /\ vErr' = ret[2]
    /\ vPc' = "returned"
    /\ UNCHANGED <<vWord, vResults>>

\* C3: ValidateDictionaryResults returns an EmptyResultError carrying exactly
\* the word if and only if the results are nil or of length zero, and nil
\* otherwise; ValidateAndReturnDictionaryResults returns the input unchanged
\* with a nil error on success, and nil results with that error on failure.
C3_ValidateRejectsExactlyEmpty ==
    LET empty == vResults.isNil \/ Len(vResults.items) = 0 IN
    /\ vPc \in {"validated", "returned"} =>
          /\ empty => vErr = EmptyResultError(vWord)
          /\ ~empty => vErr = NoError
    /\ vPc = "returned" =>
          /\ empty => vReturned = NilResults
          /\ ~empty => vReturned = vResults

\* The validate-and-return operation has refused an empty, non-nil list for
\* a non-empty word.
C3_Witness ==
    /\ vPc = "returned"
    /\ vResults = Results(<<>>)
    /\ vWord = "test"
    /\ vErr = EmptyResultError("test")
    /\ vReturned = NilResults

\* C4: validation rejects, with an empty-result error, every results list
\* holding a DictionaryResult with zero entries.
C4_ZeroEntryResultRejected ==
    vPc \in {"validated", "returned"} =>
        ((\E i \in 1..Len(vResults.items) :
              Len(vResults.items[i].Entries) = 0)
            => vErr.kind = "EmptyResultError")

IdleValidate ==
    /\ vWord = NoWord
    /\ vResults = NilResults
    /\ vPc = "idle"
    /\ vErr = NoError
    /\ vReturned = NilResults


(***************************************************************************)
(* PanicWriter (package io), as far as the renderer uses it.  A writer is  *)
(* [indentStepSize, spaces]; an operation yields the sequence of Write     *)
(* calls it makes on the inner writer, each [bytes, p]: the bytes handed   *)
(* to the inner writer and the argument p they were built from.            *)
(***************************************************************************)
RECURSIVE Repeat(_, _)
Repeat(str, n) == IF n <= 0 THEN "" ELSE str \o Repeat(str, n - 1)

\* strings.Join
RECURSIVE Join(_, _)
Join(elems, sep) ==
    IF Len(elems) = 0 THEN ""
    ELSE IF Len(elems) = 1 THEN elems[1]
    ELSE elems[1] \o sep \o Join(Tail(elems), sep)

NewPanicWriter(indentStepSize) ==
    [indentStepSize |-> indentStepSize, spaces |-> 0]

indented(w, spaces) == [w EXCEPT !.spaces = w.spaces + spaces]

\* The writer handed to the callback of IndentWrites.
IndentWrites(w) == indented(w, w.indentStepSize)

\* The writer handed to the callback of IndentWritesBy.
IndentWritesBy(w, spaces) == indented(w, spaces)

\* Write and WriteBytes on a sink that accepts every write.
WriteString(w, p) ==
    <<[bytes |-> IF 0 < w.spaces THEN Repeat(" ", w.spaces) \o p ELSE p,
       p |-> p]>>

WriteNewLine(w) == WriteString(w, "\n")

WriteStringLine(w, p) == WriteString(w, p) \o WriteNewLine(w)

RECURSIVE writeLines(_, _)
writeLines(w, num) ==
    IF num <= 0 THEN <<>> ELSE WriteNewLine(w) \o writeLines(w, num - 1)

WritePaddedStringLine(w, p, padding) ==
    writeLines(w, padding) \o WriteStringLine(w, p) \o writeLines(w, padding)

(***************************************************************************)
(* The renderer (package printer).  Every write is marked with the         *)
(* statement that made it: kind, and the sense si and sub-sense ssi the    *)
(* statement was working on (0 for none).                                  *)
(***************************************************************************)
etymologyHeader == "Origin"
synonymHeader   == "Synonyms"
antonymHeader   == "Antonyms"

Mark(kind, si, ssi, writes) ==
    [i \in 1..Len(writes) |->
        [bytes |-> writes[i].bytes, p |-> writes[i].p,
         kind |-> kind, si |-> si, ssi |-> ssi]]

\* fmt.Sprintf("%q", text) of a text without quotes, backslashes or
\* control characters.
Quoted(text) == "\"" \o text \o "\""

getPronunciationsText(pronunciations) ==
    LET first == IF Len(pronunciations) > 0
                 THEN "/" \o pronunciations[1] \o "/"
                 ELSE ""
    IN  IF Len(pronunciations) > 1
        THEN first \o " (/" \o Join(Tail(pronunciations), "/ /") \o "/)"
        ELSE first

\* Evaluated only for a result with an entry; see PrintResultHeader.
getHeader(result) ==
    LET firstEntry == result.Entries[1] IN
    IF Len(firstEntry.Pronunciations) > 0
    THEN firstEntry.Word \o "  "
            \o getPronunciationsText(firstEntry.Pronunciations)
    ELSE firstEntry.Word

\* The header getEntryHeader computes before it suppresses duplicates.
computedEntryHeader(lastWord, entry) ==
    IF Len(entry.Pronunciations) > 0
    THEN entry.Word \o "  " \o getPronunciationsText(entry.Pronunciations)
    ELSE IF entry.Word # lastWord THEN entry.Word
    ELSE ""

\* A mutation: only a repetition of the result header is suppressed.
getEntryHeaderResultOnly(resultHeader, lastEntryHeader, lastWord, entry) ==
    LET header == computedEntryHeader(lastWord, entry) IN
    IF header = resultHeader THEN "" ELSE header

getEntryHeader(resultHeader, lastEntryHeader, lastWord, entry) ==
    LET header == computedEntryHeader(lastWord, entry) IN
    IF header = resultHeader \/ header = lastEntryHeader THEN "" ELSE header

\* The prefix variable after the loop over the definitions of a sense.
sensePrefix(senseIndex, sense) ==
    IF Len(sense.Definitions) > 1 THEN " - "
    ELSE ToString(senseIndex) \o ". "

printDefinitions(writer, senseIndex, sense) ==
    Concat([defIndex \in 1..Len(sense.Definitions) |->
        LET prefix == IF 1 < defIndex THEN " - "
                      ELSE ToString(senseIndex) \o ". "
        IN  Mark("definition", senseIndex, 0,
                 WriteStringLine(writer, prefix \o sense.Definitions[defIndex]))])

printExamples(writer, senseIndex, sense) ==
    Concat([i \in 1..Len(sense.Examples) |->
        Mark("example", senseIndex, 0,
             WriteStringLine(writer, Quoted(sense.Examples[i])))])

printNotes(writer, senseIndex, sense) ==
    Concat([i \in 1..Len(sense.Notes) |->
        Mark("note", senseIndex, 0,
             WriteStringLine(writer, "[" \o sense.Notes[i] \o "]"))])

\* A mutation: every example of a sub-sense is printed.
printSubSenseAllExamples(writer, senseIndex, subIndex, subSense) ==
    LET prefix == " - " IN
    Concat([i \in 1..Len(subSense.Definitions) |->
        Mark("subDefinition", senseIndex, subIndex,
             WriteStringLine(writer, prefix \o subSense.Definitions[i]))])
    \o Concat([i \in 1..Len(subSense.Examples) |->
        Mark("subExample", senseIndex, subIndex,
             WriteStringLine(IndentWritesBy(writer, Len(prefix)),
                             Quoted(subSense.Examples[i])))])

\* The body of the loop over sense.SubSenses.
printSubSense(writer, senseIndex, subIndex, subSense) ==
    LET prefix == " - " IN
    Concat([i \in 1..Len(subSense.Definitions) |->
        Mark("subDefinition", senseIndex, subIndex,
             WriteStringLine(writer, prefix \o subSense.Definitions[i]))])
    \o (IF Len(subSense.Examples) > 0
        THEN Mark("subExample", senseIndex, subIndex,
                  WriteStringLine(IndentWritesBy(writer, Len(prefix)),
                                  Quoted(subSense.Examples[1])))
        ELSE <<>>)

\* The body of the loop over entry.Senses.
printSense(writer, senseIndex, sense) ==
    LET under == IndentWritesBy(writer, Len(sensePrefix(senseIndex, sense)))
        subs  == IndentWrites(writer)
    IN  printDefinitions(writer, senseIndex, sense)
        \o printExamples(under, senseIndex, sense)
        \o printNotes(under, senseIndex, sense)
        \o Concat([j \in 1..Len(sense.SubSenses) |->
               printSubSense(subs, senseIndex, j, sense.SubSenses[j])])

printEtymologies(writer, entry) ==
    IF 0 < Len(entry.Etymologies)
    THEN Mark("originHeader", 0, 0,
              WritePaddedStringLine(writer, etymologyHeader, 1))
         \o Concat([i \in 1..Len(entry.Etymologies) |->
                Mark("etymology", 0, 0,
                     WriteStringLine(writer, entry.Etymologies[i]))])
         \o Mark("blank", 0, 0, WriteNewLine(writer))
    ELSE <<>>

\* A mutation: the antonyms section is printed when there are synonyms.
printThesaurusValuesBySynonyms(writer, values) ==
    (IF 0 < Len(values.Synonyms)
     THEN Mark("synonymsHeader", 0, 0,
               WritePaddedStringLine(writer, synonymHeader, 1))
          \o Mark("synonyms", 0, 0,
                  WriteStringLine(writer, Join(values.Synonyms, " ; ")))
          \o Mark("blank", 0, 0, WriteNewLine(writer))
     ELSE <<>>)
    \o (IF 0 < Len(values.Synonyms)
        THEN Mark("antonymsHeader", 0, 0,
                  WritePaddedStringLine(writer, antonymHeader, 1))
             \o Mark("antonyms", 0, 0,
                     WriteStringLine(writer, Join(values.Antonyms, " ; ")))
             \o Mark("blank", 0, 0, WriteNewLine(writer))
        ELSE <<>>)

printThesaurusValues(writer, values) ==
    (IF 0 < Len(values.Synonyms)
     THEN Mark("synonymsHeader", 0, 0,
               WritePaddedStringLine(writer, synonymHeader, 1))
          \o Mark("synonyms", 0, 0,
                  WriteStringLine(writer, Join(values.Synonyms, " ; ")))
          \o Mark("blank", 0, 0, WriteNewLine(writer))
     ELSE <<>>)
    \o (IF 0 < Len(values.Antonyms)
        THEN Mark("antonymsHeader", 0, 0,
                  WritePaddedStringLine(writer, antonymHeader, 1))
             \o Mark("antonyms", 0, 0,
                     WriteStringLine(writer, Join(values.Antonyms, " ; ")))
             \o Mark("blank", 0, 0, WriteNewLine(writer))
        ELSE <<>>)

printDictionaryEntry(writer, entry) ==
    (IF entry.LexicalCategory # ""
     THEN Mark("category", 0, 0,
               WritePaddedStringLine(writer,
                   "(" \o entry.LexicalCategory \o ")", 1))
     ELSE <<>>)
    \o Concat([i \in 1..Len(entry.Senses) |->
           printSense(writer, i, entry.Senses[i])])
    \o printEtymologies(writer, entry)
    \o printThesaurusValues(writer, entry)

\* The writes of one statement group, placed in result ri and entry ei.
Placed(ri, ei, writes) ==
    [i \in 1..Len(writes) |->
        [bytes |-> writes[i].bytes, p |-> writes[i].p,
         kind |-> writes[i].kind, si |-> writes[i].si,
         ssi |-> writes[i].ssi, ri |-> ri, ei |-> ei]]

(***************************************************************************)
(* The results handed to the renderer                                      *)
(***************************************************************************)
Texts(stem, n) == [i \in 1..n |-> stem \o ToString(i)]

Sense(definitions, examples, notes, subSenses) ==
    [Definitions |-> definitions, Examples |-> examples, Notes |-> notes,
     SubSenses |-> subSenses]

Entry(word, category, pronunciations, senses, etymologies, synonyms, antonyms) ==
    [Word |-> word, LexicalCategory |-> category,
     Pronunciations |-> pronunciations, Senses |-> senses,
     Etymologies |-> etymologies, Synonyms |-> synonyms,
     Antonyms |-> antonyms]

IndentStepSizes == {0, 2}

\* Entries that differ in word and pronunciations only.
HeaderEntries ==
    {Entry(w, "", p, <<Sense(<<"d1">>, <<>>, <<>>, <<>>)>>, <<>>, <<>>, <<>>) :
        w \in {"cat", "dog"}, p \in {<<>>, <<"kat">>, <<"kat", "cat">>}}

\* Results of zero to MaxEntries such entries, whose Word may differ from
\* the words of their entries.
HeaderResults ==
    {DictionaryResult("en", w, es) :
        w \in {"cat", "cats"}, es \in SeqsUpTo(HeaderEntries, MaxEntries)}

SubSenseSet ==
    {Sense(<<"sd1">>, Texts("sx", x), <<>>, <<>>) : x \in {0, MaxExamples}}

\* Senses with every combination of definitions, examples, notes and
\* sub-senses.
RichSenses ==
    {Sense(Texts("d", d), Texts("x", x), Texts("n", n), subs) :
        d \in 1..MaxDefinitions, x \in {0, MaxExamples}, n \in {0, 1},
        subs \in SeqsUpTo(SubSenseSet, MaxSubSenses)}

PlainSenses ==
    {Sense(<<"d1">>, Texts("x", x), <<>>, subs) :
        x \in {0, 1},
        subs \in {<<>>, <<Sense(<<"sd1">>, <<"sx1">>, <<>>, <<>>)>>}}

BodySenseLists ==
    {<<>>} \cup {<<s>> : s \in RichSenses}
        \cup (SeqsUpTo(PlainSenses, MaxSenses) \ SeqsUpTo(PlainSenses, 1))

BodyEntries ==
    {Entry("cat", c, <<"kat">>, ss, e, sy, an) :
        c \in {"", "noun"}, ss \in BodySenseLists,
        e \in {<<>>, <<"e1", "e2">>}, sy \in {<<>>, <<"s1", "s2">>},
        an \in {<<>>, <<"a1">>}}

PrintInputs ==
    {<<r>> : r \in HeaderResults}
        \cup {<<r1, r2>> : r1 \in {r \in HeaderResults : Len(r.Entries) <= 1},
                           r2 \in {r \in HeaderResults : Len(r.Entries) <= 2}}
        \cup {<<DictionaryResult("en", "cat", <<e>>)>> : e \in BodyEntries}
        \cup {<<>>}

InitPrint ==
    /\ pResults \in PrintInputs
    /\ pIndentStepSize \in IndentStepSizes
    /\ pPc = "result"
    /\ pRi = 1
    /\ pEi = 1
    /\ pResultHeader = ""
    /\ pLastEntryHeader = ""
    /\ pLastWord = ""
    /\ pOut = <<>>

\* The writer of the callback of p.out.IndentWrites.
resultWriter == IndentWrites(NewPanicWriter(pIndentStepSize))

\* Lines 50-54: the head of the loop over results.  getHeader indexes
\* result.Entries[0], which panics when the result has no entries.
PrintResultHeader ==
    /\ pPc = "result"
    /\ pRi <= Len(pResults)
    /\ LET result == pResults[pRi] IN
       IF Len(result.Entries) = 0
       THEN /\ pPc' = "panic"
            /\ UNCHANGED <<pEi, pResultHeader, pLastEntryHeader, pOut>>
       ELSE /\ pResultHeader' = getHeader(result)
            /\ pOut' = pOut \o Placed(pRi, 0, Mark("resultHeader", 0, 0,
                   WritePaddedStringLine(resultWriter, pResultHeader', 1)))
            /\ pLastEntryHeader' = ""
            /\ pEi' = 1
            /\ pPc' = "entry"
    /\ UNCHANGED <<pResults, pIndentStepSize, pRi, pLastWord>>

\* Lines 55-69: one round of the loop over result.Entries.
PrintEntry ==
    /\ pPc = "entry"
    /\ pEi <= Len(pResults[pRi].Entries)
    /\ LET entry       == pResults[pRi].Entries[pEi]
           entryHeader == getEntryHeader(pResultHeader, pLastEntryHeader,
                                         pLastWord, entry)
           headerWrites ==
               IF entryHeader # ""
               THEN Mark("blank", 0, 0, WriteNewLine(resultWriter))
                    \o Mark("blank", 0, 0, WriteNewLine(resultWriter))
                    \o Mark("entryHeader", 0, 0,
                            WriteStringLine(resultWriter, entryHeader))
               ELSE <<>>
       IN  /\ pLastEntryHeader' =
                 IF entryHeader # "" THEN entryHeader ELSE pLastEntryHeader
           /\ pOut' = pOut \o Placed(pRi, pEi, headerWrites
                 \o printDictionaryEntry(IndentWrites(resultWriter), entry))
           /\ pLastWord' = entry.Word
    /\ pEi' = pEi + 1
    /\ UNCHANGED <<pResults, pIndentStepSize, pPc, pRi, pResultHeader>>

\* Line 71: the end of one round of the loop over results.
EndResult ==
    /\ pPc = "entry"
    /\ pEi > Len(pResults[pRi].Entries)
    /\ pOut' = pOut \o Placed(pRi, 0,
                         Mark("blank", 0, 0, WriteNewLine(resultWriter)))
    /\ pRi' = pRi + 1
    /\ pPc' = "result"
    /\ UNCHANGED <<pResults, pIndentStepSize, pEi, pResultHeader,
                   pLastEntryHeader, pLastWord>>

\* The loop over results is over and PrintDictionaryResults returns.
ReturnFromPrint ==
    /\ pPc = "result"
    /\ pRi > Len(pResults)
    /\ pPc' = "done"
    /\ UNCHANGED <<pResults, pIndentStepSize, pRi, pEi, pResultHeader,
                   pLastEntryHeader, pLastWord, pOut>>

\* The loop over the entries has finished its round for entry ei of result
\* ri.
Printed(ri, ei) ==
    /\ ri \in 1..Len(pResults)
    /\ ei \in 1..Len(pResults[ri].Entries)
    /\ \/ ri < pRi
       \/ ri = pRi /\ pPc = "entry" /\ ei < pEi

\* The value of lastWord when the round for entry ei of result ri began:
\* the word of the entry printed before it, if any.
RECURSIVE WordBefore(_, _)
WordBefore(ri, ei) ==
    IF ei > 1 THEN pResults[ri].Entries[ei - 1].Word
    ELSE IF ri = 1 THEN ""
    ELSE IF Len(pResults[ri - 1].Entries) = 0 THEN WordBefore(ri - 1, 1)
    ELSE pResults[ri - 1].Entries[Len(pResults[ri - 1].Entries)].Word

\* The header computed for entry ei of result ri.
HeaderOf(ri, ei) ==
    computedEntryHeader(WordBefore(ri, ei), pResults[ri].Entries[ei])

\* The arguments of the writes of one kind, other than line ends, made for
\* entry ei of result ri, sense si and sub-sense ssi, in the order made.
Lines(kind, ri, ei, si, ssi) ==
    LET sel == SelectSeq(pOut, LAMBDA w :
                   /\ w.kind = kind /\ w.ri = ri /\ w.ei = ei
                   /\ w.si = si /\ w.ssi = ssi /\ w.p # "\n")
    IN  [i \in 1..Len(sel) |-> sel[i].p]

\* C5: no entry header is printed for an entry whose computed header is
\* the result header or the computed header of the entry just before it in
\* the result; of two consecutive entries with the same computed header at
\* most the first prints it.
C5_NoRepeatedEntryHeader ==
    \A ri \in 1..Len(pResults) : \A ei \in 1..Len(pResults[ri].Entries) :
        Printed(ri, ei) =>
            LET header == HeaderOf(ri, ei) IN
            /\ header = getHeader(pResults[ri])
                   => Lines("entryHeader", ri, ei, 0, 0) = <<>>
            /\ (ei > 1 /\ header = HeaderOf(ri, ei - 1))
                   => /\ Lines("entryHeader", ri, ei, 0, 0) = <<>>
                      /\ Len(Lines("entryHeader", ri, ei - 1, 0, 0)) <= 1

\* Two consecutive entries with the same computed header, which is not the
\* result header, have been rendered; the first printed it.
C5_Witness ==
    \E ri \in 1..Len(pResults) : \E ei \in 2..Len(pResults[ri].Entries) :
        /\ Printed(ri, ei)
        /\ HeaderOf(ri, ei) = HeaderOf(ri, ei - 1)
        /\ HeaderOf(ri, ei) # ""
        /\ HeaderOf(ri, ei) # pResultHeader
        /\ Lines("entryHeader", ri, ei - 1, 0, 0) = <<HeaderOf(ri, ei)>>

\* C6: a top-level sense prints one example line for each of its examples,
\* in order; a sub-sense prints one example line, for its first example, or
\* none when it has no example.
C6_ExamplesPerSense ==
    \A ri \in 1..Len(pResults) : \A ei \in 1..Len(pResults[ri].Entries) :
        Printed(ri, ei) =>
            \A si \in 1..Len(pResults[ri].Entries[ei].Senses) :
                LET sense == pResults[ri].Entries[ei].Senses[si] IN
                /\ Lines("example", ri, ei, si, 0)
                       = [i \in 1..Len(sense.Examples) |->
                             Quoted(sense.Examples[i])]
                /\ \A ssi \in 1..Len(sense.SubSenses) :
                       LET sub == sense.SubSenses[ssi] IN
                       Lines("subExample", ri, ei, si, ssi)
                           = IF Len(sub.Examples) = 0 THEN <<>>
                             ELSE <<Quoted(sub.Examples[1])>>

\* An entry has been rendered whose sense has three examples, and a
\* sub-sense with three examples after a sub-sense without any.
C6_Witness ==
    /\ Printed(1, 1)
    /\ LET senses == pResults[1].Entries[1].Senses IN
       /\ Len(senses) = 1
       /\ Len(senses[1].Examples) = 3
       /\ Len(senses[1].SubSenses) = 2
       /\ Len(senses[1].SubSenses[1].Examples) = 0
       /\ Len(senses[1].SubSenses[2].Examples) = 3

\* The place of a write in the layout of an entry: the section, then the
\* sense, then the part of the sense, then the sub-sense.
SectionRank(w) ==
    LET section ==
            CASE w.kind = "category" -> 1
              [] w.kind \in {"definition", "example", "note",
                             "subDefinition", "subExample"} -> 2
              [] w.kind \in {"originHeader", "etymology"} -> 3
              [] w.kind \in {"synonymsHeader", "synonyms"} -> 4
              [] w.kind \in {"antonymsHeader", "antonyms"} -> 5
              [] OTHER -> 0
        part ==
            CASE w.kind = "definition" -> 1
              [] w.kind = "example" -> 2
              [] w.kind = "note" -> 3
              [] w.kind \in {"subDefinition", "subExample"} -> 4
              [] w.kind \in {"etymology", "synonyms", "antonyms"} -> 1
              [] OTHER -> 0
    IN  section * 1000 + w.si * 100 + part * 10 + w.ssi

\* The writes, other than line ends, of the body of entry ei of result ri.
BodyLines(ri, ei) ==
    SelectSeq(pOut, LAMBDA w :
        /\ w.ri = ri /\ w.ei = ei /\ w.p # "\n"
        /\ w.kind \notin {"entryHeader", "blank"})

\* C7: an entry's sections come in the order category, senses by index
\* (each with its definitions, then examples, then notes, then sub-senses),
\* Origin, Synonyms, Antonyms; each section is present iff its data is
\* non-empty, and the Antonyms section lists the antonyms.
C7_SectionOrder ==
    \A ri \in 1..Len(pResults) : \A ei \in 1..Len(pResults[ri].Entries) :
        Printed(ri, ei) =>
            LET entry == pResults[ri].Entries[ei]
                body  == BodyLines(ri, ei)
            IN  /\ \A i \in 1..Len(body) : \A j \in 1..Len(body) :
                       i < j => SectionRank(body[i]) <= SectionRank(body[j])
                /\ Lines("category", ri, ei, 0, 0)
                       = IF entry.LexicalCategory = "" THEN <<>>
                         ELSE <<"(" \o entry.LexicalCategory \o ")">>
                /\ \A si \in 1..Len(entry.Senses) :
                       /\ Len(Lines("definition", ri, ei, si, 0))
                              = Len(entry.Senses[si].Definitions)
                       /\ Len(Lines("note", ri, ei, si, 0))
                              = Len(entry.Senses[si].Notes)
                       /\ \A ssi \in 1..Len(entry.Senses[si].SubSenses) :
                              Len(Lines("subDefinition", ri, ei, si, ssi))
                                  = Len(entry.Senses[si].SubSenses[ssi].Definitions)
                /\ Lines("originHeader", ri, ei, 0, 0)
                       = IF entry.Etymologies = <<>> THEN <<>>
                         ELSE <<etymologyHeader>>
                /\ Lines("etymology", ri, ei, 0, 0) = entry.Etymologies
                /\ Lines("synonymsHeader", ri, ei, 0, 0)
                       = IF entry.Synonyms = <<>> THEN <<>>
                         ELSE <<synonymHeader>>
                /\ Lines("synonyms", ri, ei, 0, 0)
                       = IF entry.Synonyms = <<>> THEN <<>>
                         ELSE <<Join(entry.Synonyms, " ; ")>>
                /\ Lines("antonymsHeader", ri, ei, 0, 0)
                       = IF entry.Antonyms = <<>> THEN <<>>
                         ELSE <<antonymHeader>>
                /\ Lines("antonyms", ri, ei, 0, 0)
                       = IF entry.Antonyms = <<>> THEN <<>>
                         ELSE <<Join(entry.Antonyms, " ; ")>>

\* An entry with a category, two senses of which the first has a
\* sub-sense, etymologies, no synonyms and an antonym has been rendered.
C7_Witness ==
    /\ Printed(1, 1)
    /\ LET entry == pResults[1].Entries[1] IN
       /\ entry.LexicalCategory = "noun"
       /\ Len(entry.Senses) = 2
       /\ Len(entry.Senses[1].SubSenses) = 1
       /\ entry.Etymologies # <<>>
       /\ entry.Synonyms = <<>>
       /\ entry.Antonyms # <<>>

\* C8: the result header is the result's Word, followed by two spaces and
\* the pronunciation text iff the first entry has a pronunciation.
C8_HeaderShowsResultWord ==
    \A ri \in 1..Len(pResults) :
        (ri < pRi \/ (ri = pRi /\ pPc = "entry")) =>
            LET result     == pResults[ri]
                firstEntry == result.Entries[1]
            IN  Lines("resultHeader", ri, 0, 0, 0)
                    = << IF Len(firstEntry.Pronunciations) > 0
                         THEN result.Word \o "  " \o getPronunciationsText(
                                  firstEntry.Pronunciations)
                         ELSE result.Word >>

\* C26: a results list that ValidateDictionaryResults accepts is rendered
\* to the end: PrintDictionaryResults never indexes Entries[0] of a result
\* without entries.
C26_AcceptedResultsRenderWithoutPanic ==
    ValidateDictionaryResults("cat", Results(pResults)) = NoError
        => pPc # "panic"

\* The header lines written for result ri up to the round of entry ei, in
\* the order written: the result header and the entry headers.
HeaderLinesUpTo(ri, ei) ==
    LET sel == SelectSeq(pOut, LAMBDA w :
                   /\ w.kind \in {"resultHeader", "entryHeader"}
                   /\ w.ri = ri /\ w.ei <= ei /\ w.p # "\n")
    IN  [i \in 1..Len(sel) |-> sel[i].p]

\* s begins with prefix.
HasPrefix(s, prefix) ==
    Len(prefix) <= Len(s) /\ SubSeq(s, 1, Len(prefix)) = prefix

\* C30: the content of every rendered entry stands under a header of its
\* word: the header line printed last in the result before the entry's
\* category and senses begins with the entry's Word.
C30_ContentUnderOwnWord ==
    \A ri \in 1..Len(pResults) : \A ei \in 1..Len(pResults[ri].Entries) :
        Printed(ri, ei) =>
            LET headers == HeaderLinesUpTo(ri, ei) IN
            /\ headers # <<>>
            /\ HasPrefix(headers[Len(headers)], pResults[ri].Entries[ei].Word)

IdlePrint ==
    /\ pResults = <<>>
    /\ pIndentStepSize = 0
    /\ pPc = "idle"
    /\ pRi = 1
    /\ pEi = 1
    /\ pResultHeader = ""
    /\ pLastEntryHeader = ""
    /\ pLastWord = ""
    /\ pOut = <<>>

(***************************************************************************)
(* The Oxford normalizer (package oxford)                                  *)
(***************************************************************************)
phoneticNotationIPAIdentifier == "IPA"

\* strings.EqualFold on the notations that occur in the payloads below.
FoldedNotation(notation) ==
    IF notation \in {"IPA", "ipa", "Ipa"} THEN "ipa" ELSE notation

EqualFoldNotation(s, t) == FoldedNotation(s) = FoldedNotation(t)

apiPronunciation(notation, spelling) ==
    [PhoneticNotation |-> notation, PhoneticSpelling |-> spelling]

\* An apiSense: its text fields are named after its ID.
apiSense(id, subsenses) ==
    [ID |-> id,
     Definitions |-> <<"def " \o id>>,
     Examples |-> <<[Text |-> "ex " \o id]>>,
     Notes |-> <<[Text |-> "note " \o id, Type |-> "grammaticalNote"]>>,
     Subsenses |-> subsenses]

\* The sense trees with the given ID at their root and at most depth
\* levels, each sense having at most MaxApiSubsenses subsenses of which the
\* last may have subsenses of its own; and the lists of k such senses below
\* the sense with the given ID.
RECURSIVE ApiSenseTrees(_, _), ApiSenseListsOfLen(_, _, _)
ApiSenseListsOfLen(id, depth, k) ==
    IF k = 0 THEN {<<>>}
    ELSE {Append([j \in 1..(k - 1) |->
                     apiSense(id \o "." \o ToString(j), <<>>)], t) :
             t \in ApiSenseTrees(id \o "." \o ToString(k), depth)}

ApiSenseTrees(id, depth) ==
    IF depth <= 1 THEN {apiSense(id, <<>>)}
    ELSE {apiSense(id, subs) :
             subs \in UNION {ApiSenseListsOfLen(id, depth - 1, k) :
                                k \in 0..MaxApiSubsenses}}

\* The lists of zero to MaxApiSenses top-level sense trees of one entry:
\* the first tree of at most MaxApiDepth levels, the later ones one less.
RECURSIVE ApiTopListsOfLen(_, _)
ApiTopListsOfLen(entryId, k) ==
    IF k = 0 THEN {<<>>}
    ELSE {Append(l, t) :
             l \in ApiTopListsOfLen(entryId, k - 1),
             t \in ApiSenseTrees(entryId \o "." \o ToString(k),
                                 IF k = 1 THEN MaxApiDepth
                                 ELSE MaxApiDepth - 1)}

ApiSenseLists(entryId) ==
    UNION {ApiTopListsOfLen(entryId, k) : k \in 0..MaxApiSenses}

ApiPronunciationLists ==
    {<<>>,
     <<apiPronunciation("IPA", "kat")>>,
     <<apiPronunciation("respell", "KAT"), apiPronunciation("ipa", "kaet")>>,
     <<apiPronunciation("ipa", "kat"), apiPronunciation("IPA", "kot")>>}

apiSubEntry(etymologies, pronunciations, senses) ==
    [Etymologies |-> etymologies, Pronunciations |-> pronunciations,
     Senses |-> senses]

apiLexicalEntry(pronunciations, entries) ==
    [Text |-> "cat", LexicalCategory |-> [ID |-> "noun", Text |-> "Noun"],
     Pronunciations |-> pronunciations, Entries |-> entries]

\* Lexical entries of one entry with any senses; and lexical entries of one
\* or two entries with any pronunciations and flat senses.
ApiLexicalEntries ==
    {apiLexicalEntry(<<apiPronunciation("IPA", "kat")>>,
                     <<apiSubEntry(<<"Old English catt">>, <<>>, senses)>>) :
        senses \in ApiSenseLists("a")}
    \cup
    {apiLexicalEntry(prs,
                     <<apiSubEntry(<<"Old English catt">>, sub,
                                   <<apiSense("a.1", <<>>)>>)>> \o more) :
        prs \in ApiPronunciationLists,
        sub \in ApiPronunciationLists,
        more \in {<<>>,
                  <<apiSubEntry(<<>>, <<apiPronunciation("IPA", "kot")>>,
                                <<apiSense("b.1", <<apiSense("b.1.1", <<>>)>>)>>)>>}}

toAttributedText(example) ==
    [Text |-> example.Text, Author |-> "", Source |-> ""]

\* apiSense.toSense: the subsenses are not copied.
toSense(sense) ==
    [Definitions |-> sense.Definitions,
     Examples |-> [i \in 1..Len(sense.Examples) |->
                      toAttributedText(sense.Examples[i])],
     Notes |-> [i \in 1..Len(sense.Notes) |-> sense.Notes[i].Text],
     SubSenses |-> <<>>]

\* The senses nested below a sense at any depth, in source order.
RECURSIVE Descendants(_)
Descendants(sense) ==
    Concat([j \in 1..Len(sense.Subsenses) |->
        <<sense.Subsenses[j]>> \o Descendants(sense.Subsenses[j])])

\* A mutation: deeper senses are absorbed into the one sub-level.
toSubSensesAbsorbing(sense) ==
    LET all == Descendants(sense) IN
    [j \in 1..Len(all) |-> toSense(all[j])]

\* "Only go one level deep of sub-senses": the loop over sense.Subsenses.
toSubSenses(sense) ==
    [j \in 1..Len(sense.Subsenses) |-> toSense(sense.Subsenses[j])]

\* The spellings of the pronunciations in IPA notation.
ipaSpellings(pronunciations) ==
    LET ipa == SelectSeq(pronunciations, LAMBDA pr :
                   EqualFoldNotation(phoneticNotationIPAIdentifier,
                                     pr.PhoneticNotation))
    IN  [i \in 1..Len(ipa) |-> ipa[i].PhoneticSpelling]

toEntry(e) ==
    [Word |-> e.Text,
     LexicalCategory |-> e.LexicalCategory.Text,
     Pronunciations |->
         ipaSpellings(e.Pronunciations)
         \o Concat([k \in 1..Len(e.Entries) |->
                ipaSpellings(e.Entries[k].Pronunciations)]),
     Senses |->
         Concat([k \in 1..Len(e.Entries) |->
             [i \in 1..Len(e.Entries[k].Senses) |->
                 [toSense(e.Entries[k].Senses[i]) EXCEPT
                     !.SubSenses = toSubSenses(e.Entries[k].Senses[i])]]]),
     Etymologies |->
         Concat([k \in 1..Len(e.Entries) |-> e.Entries[k].Etymologies]),
     Synonyms |-> <<>>,
     Antonyms |-> <<>>]

NoEntry == BareEntry(NoWord)

InitOxford ==
    /\ oxLexicalEntry \in ApiLexicalEntries
    /\ oxPc = "start"
    /\ oxSourceEntry = NoEntry

CallToEntry ==
    /\ oxPc = "start"
    /\ oxSourceEntry' = toEntry(oxLexicalEntry)
    /\ oxPc' = "done"
    /\ UNCHANGED oxLexicalEntry

\* The top-level senses of the payload, in source order.
ApiTopSenses ==
    Concat([k \in 1..Len(oxLexicalEntry.Entries) |->
        oxLexicalEntry.Entries[k].Senses])

\* The definitions of the senses of a list.
DefinitionsOf(senses) == {senses[i].Definitions : i \in 1..Len(senses)}

IdleOxford ==
    /\ oxLexicalEntry = <<>>
    /\ oxPc = "idle"
    /\ oxSourceEntry = NoEntry

(***************************************************************************)
(* The Webster JSON normalizer (package webster).  A sense number is a     *)
(* list of one-character strings; a text is a list of plain parts and of   *)
(* tokens, a token {a|b|c} having the fields <<"a", "b", "c">>.            *)
(***************************************************************************)
arrayDataTagText                == "text"
arrayDataTagSense               == "sense"
arrayDataTagBindingSubstitute   == "bs"
arrayDataTagVerbalIllustrations == "vis"

Digits    == {"0", "1", "2", "3", "4", "5", "6", "7", "8", "9"}
WordChars == Digits \cup {"a", "b", "c", "d", "e", "_"}

DigitValue(c) ==
    CASE c = "0" -> 0 [] c = "1" -> 1 [] c = "2" -> 2 [] c = "3" -> 3
      [] c = "4" -> 4 [] c = "5" -> 5 [] c = "6" -> 6 [] c = "7" -> 7
      [] c = "8" -> 8 [] c = "9" -> 9

\* The first position at or after i of chars that is not in set.
RECURSIVE RunEnd(_, _, _)
RunEnd(chars, i, set) ==
    IF i <= Len(chars) /\ chars[i] \in set THEN RunEnd(chars, i + 1, set)
    ELSE i

\* strconv.Atoi of a run of digits; an empty run is an error and leaves 0.
RECURSIVE Atoi(_)
Atoi(digits) ==
    IF Len(digits) = 0 THEN 0
    ELSE 10 * Atoi(SubSeq(digits, 1, Len(digits) - 1))
             + DigitValue(digits[Len(digits)])

AfterSpace(chars, i) ==
    IF i <= Len(chars) /\ chars[i] = " " THEN i + 1 ELSE i

NilSenseNumber == [isNil |-> TRUE, number |-> 0, letter |-> "", sub |-> ""]

NoSn == [isNil |-> TRUE, chars |-> <<>>]
Sn(chars) == [isNil |-> FALSE, chars |-> chars]

\* regexpWebsterSenseNumber, (\d+)? ?(\w+)? ?(\(\d+\))?, matched at the
\* start of the text, where it always matches.
parseSenseNumber(rawSenseNumber) ==
    IF rawSenseNumber.isNil THEN NilSenseNumber
    ELSE LET chars == rawSenseNumber.chars
             i1 == RunEnd(chars, 1, Digits)
             i2 == AfterSpace(chars, i1)
             i3 == RunEnd(chars, i2, WordChars)
             i4 == AfterSpace(chars, i3)
             i5 == RunEnd(chars, i4 + 1, Digits)
             hasSub == /\ i4 <= Len(chars) /\ chars[i4] = "("
                       /\ i5 > i4 + 1
                       /\ i5 <= Len(chars) /\ chars[i5] = ")"
         IN  [isNil  |-> FALSE,
              number |-> Atoi(SubSeq(chars, 1, i1 - 1)),
              letter |-> Join(SubSeq(chars, i2, i3 - 1), ""),
              sub    |-> IF hasSub THEN Join(SubSeq(chars, i4, i5), "")
                         ELSE ""]

Token(fields) == [token |-> TRUE, fields |-> fields]
Plain(text)   == [token |-> FALSE, fields |-> <<text>>]

\* regexpWebsterTokens.ReplaceAllString(text, "$1"): a token is replaced by
\* its second field, or removed when it has none.
cleanTextOfTokens(text) ==
    Join([i \in 1..Len(text) |->
             IF text[i].token
             THEN IF Len(text[i].fields) >= 2 THEN text[i].fields[2] ELSE ""
             ELSE text[i].fields[1]], "")

NoAttribution == [isNil |-> TRUE, auth |-> <<>>, source |-> <<>>]

\* apiExample.toAttributedText; an absent author or source is the empty text.
exampleToAttributedText(e) ==
    [Text |-> cleanTextOfTokens(e.t),
     Author |-> IF e.aq.isNil THEN "" ELSE cleanTextOfTokens(e.aq.auth),
     Source |-> IF e.aq.isNil THEN "" ELSE cleanTextOfTokens(e.aq.source)]

\* apiSenseData.toSense: dt is a list of [tag, value] parts; a part of
\* fewer than two elements has tag "".
senseDataToSense(d) ==
    LET texts == SelectSeq(d.dt, LAMBDA part : part.tag = arrayDataTagText)
        vis   == SelectSeq(d.dt, LAMBDA part :
                               part.tag = arrayDataTagVerbalIllustrations)
    IN  [Definitions |-> [i \in 1..Len(texts) |->
                             cleanTextOfTokens(texts[i].value)],
         Examples |-> Concat([i \in 1..Len(vis) |->
                         [j \in 1..Len(vis[i].value) |->
                             exampleToAttributedText(vis[i].value[j])]]),
         Notes |-> <<>>,
         SubSenses |-> <<>>]

\* The text of the sense data of the n-th container of the sequence.
SenseText(n) == <<Token(<<"bc">>), Plain("def " \o ToString(n))>>

SenseData(sn, n) ==
    [sn |-> sn,
     dt |-> <<[tag |-> arrayDataTagText, value |-> SenseText(n)]>>]

\* Sense data with a verbal illustration, as binding substitutes carry.
SenseDataWithExample(sn, n) ==
    [sn |-> sn,
     dt |-> <<[tag |-> arrayDataTagText, value |-> SenseText(n)],
              [tag |-> arrayDataTagVerbalIllustrations,
               value |-> <<[t |-> <<Plain("an "),
                                    Token(<<"sx", "test", "", "">>)>>,
                            aq |-> [isNil |-> FALSE,
                                    auth |-> <<Plain("Author")>>,
                                    source |-> <<>>]]>>]>>]

\* A container [tag, data]; one of fewer than two elements has len 1.
Container(tag, len, data) == [tag |-> tag, len |-> len, data |-> data]

\* The containers that may stand at place n of the sequence.
Containers(n) ==
    {Container(arrayDataTagSense, 2, SenseData(sn, n)) :
        sn \in {NoSn, Sn(<<"1", " ", "a">>), Sn(<<"b">>)}}
    \cup {Container(arrayDataTagBindingSubstitute, 2,
                    SenseDataWithExample(sn, n)) :
             sn \in {Sn(<<"2", " ", "a", " ", "(", "1", ")">>)}}
    \cup {Container("pseq", 2, SenseData(NoSn, n)),
          Container(arrayDataTagSense, 1, SenseData(NoSn, n))}

\* The containers read so far.
SseqContainers == Concat(wbSseq)

InitWebster ==
    /\ wbSseq = <<>>
    /\ wbPc = "sseq"
    /\ wbSenses = <<>>
    /\ wbLastSenseNumber = NilSenseNumber

\* Lines 662-663: the outer loop takes the next apiSense.
NextApiSense ==
    /\ wbPc = "sseq"
    /\ Len(wbSseq) < MaxSseqSenses
    /\ wbSseq' = Append(wbSseq, <<>>)
    /\ wbLastSenseNumber' = NilSenseNumber
    /\ wbPc' = "sense"
    /\ UNCHANGED wbSenses

\* A mutation: a sub-sense is appended to the first sense.
appendSubSenseToFirst(senses, sourceSense) ==
    [senses EXCEPT ![1].SubSenses = Append(@, sourceSense)]

\* lastSense := &(senses[len(senses)-1]); append to lastSense.SubSenses.
\* On an empty senses the index is out of range.
appendSubSense(senses, sourceSense) ==
    [senses EXCEPT ![Len(senses)].SubSenses = Append(@, sourceSense)]

\* Is a container skipped by the guards of lines 668-683?
Skipped(c) ==
    \/ c.len < 2
    \/ c.tag \notin {arrayDataTagSense, arrayDataTagBindingSubstitute}

\* Lines 665-699: one round of the inner loop, on the next container.
NextContainer ==
    /\ wbPc = "sense"
    /\ Len(SseqContainers) < MaxSseqContainers
    /\ \E c \in Containers(Len(SseqContainers) + 1) :
          /\ wbSseq' = [wbSseq EXCEPT ![Len(wbSseq)] = Append(@, c)]
          /\ IF Skipped(c)
             THEN UNCHANGED <<wbSenses, wbLastSenseNumber, wbPc>>
             ELSE LET senseNumber == parseSenseNumber(c.data.sn)
                      sourceSense == senseDataToSense(c.data)
                  IN  /\ IF \/ wbLastSenseNumber.isNil
                            \/ /\ ~senseNumber.isNil
                               /\ wbLastSenseNumber.number < senseNumber.number
                         THEN /\ wbSenses' = Append(wbSenses, sourceSense)
                              /\ wbPc' = wbPc
                         ELSE IF Len(wbSenses) = 0
                         THEN /\ wbPc' = "panic"
                              /\ wbSenses' = wbSenses
                         ELSE /\ wbSenses' = appendSubSense(wbSenses, sourceSense)
                              /\ wbPc' = wbPc
                      /\ wbLastSenseNumber' = senseNumber

\* The inner loop has read the last container of the apiSense.
EndApiSense ==
    /\ wbPc = "sense"
    /\ wbPc' = "sseq"
    /\ UNCHANGED <<wbSseq, wbSenses, wbLastSenseNumber>>

\* Line 702: the outer loop is over and toSenses returns senses.
ReturnSenses ==
    /\ wbPc = "sseq"
    /\ wbPc' = "done"
    /\ UNCHANGED <<wbSseq, wbSenses, wbLastSenseNumber>>

\* The containers read so far, each with the number of its apiSense.
SseqItems ==
    Concat([g \in 1..Len(wbSseq) |->
               [j \in 1..Len(wbSseq[g]) |-> [group |-> g, c |-> wbSseq[g][j]]]])

\* The sense items: tagged "sense" or "bs" and carrying their sense data.
SenseItems ==
    SelectSeq(SseqItems, LAMBDA it :
        /\ it.c.tag \in {arrayDataTagSense, arrayDataTagBindingSubstitute}
        /\ it.c.len = 2)

\* The plain definition text a sense item was given in the payload.
PayloadText(it) == it.c.data.dt[1].value[2].fields[1]

\* The senses of the output in the order of a walk: every top-level sense
\* followed by its sub-senses.
OutputSenses ==
    Concat([i \in 1..Len(wbSenses) |->
               <<[depth |-> 1, sense |-> wbSenses[i]]>>
               \o [j \in 1..Len(wbSenses[i].SubSenses) |->
                      [depth |-> 2, sense |-> wbSenses[i].SubSenses[j]]]])

FirstOfGroup(k) ==
    k = 1 \/ SenseItems[k - 1].group # SenseItems[k].group

\* Does the k-th sense item open a new sense by its sense number?
NumberedAsNewSense(k) ==
    LET last == parseSenseNumber(SenseItems[k - 1].c.data.sn)
        this == parseSenseNumber(SenseItems[k].c.data.sn)
    IN  last.isNil \/ (~this.isNil /\ last.number < this.number)

\* C10: at every point of toSenses, the output holds the sense items read so
\* far (containers tagged "sense" or "bs" with their sense data), each exactly
\* once, in source order when every top-level sense is read followed by its
\* sub-senses, so that a sub-sense hangs under the top-level sense appended
\* last before it; the first sense item of each group is a top-level sense, a
\* later one is a top-level sense exactly when its sense number opens a new
\* sense; no sub-sense has sub-senses; and the sub-sense branch is never
\* taken on an empty list of senses.
C10_SubSenseUnderLastSense ==
    /\ wbPc # "panic"
    /\ Len(OutputSenses) = Len(SenseItems)
    /\ \A k \in 1..Len(SenseItems) :
          /\ k <= Len(OutputSenses)
          /\ OutputSenses[k].sense.Definitions = <<PayloadText(SenseItems[k])>>
          /\ OutputSenses[k].sense.SubSenses = <<>>
             \/ OutputSenses[k].depth = 1
          /\ FirstOfGroup(k) => OutputSenses[k].depth = 1
          /\ ~FirstOfGroup(k) =>
                (OutputSenses[k].depth = 1 <=> NumberedAsNewSense(k))
    /\ \A i \in 1..Len(wbSenses) : \A j \in 1..Len(wbSenses[i].SubSenses) :
          wbSenses[i].SubSenses[j].SubSenses = <<>>

\* toSenses has returned two top-level senses from two groups, the second
\* with the sub-sense read after it and the first with none.
C10_Witness ==
    /\ wbPc = "done"
    /\ Len(wbSseq) = 2
    /\ Len(wbSenses) = 2
    /\ wbSenses[1].SubSenses = <<>>
    /\ Len(wbSenses[2].SubSenses) = 1

IdleWebster ==
    /\ wbSseq = <<>>
    /\ wbPc = "idle"
    /\ wbSenses = <<>>
    /\ wbLastSenseNumber = NilSenseNumber

(***************************************************************************)
(* The Webster XML decoder (package webster, API v1).  The raw text of an  *)
(* element is a list of parts: tags, single spaces, colons and words.      *)
(***************************************************************************)
senseTagName        == "sn"
senseDividerTagName == "sd"
definingTextTagName == "dt"
calledAlsoTagName   == "ca"

senseDividerPrefix == "; "
definingTextPrefix == ":"

tagsToClean == {"<it>", "</it>", "<fw>", "</fw>", "<sx>", "</sx>"}

\* strings.TrimLeft(parts, cutset), on a list of parts.
RECURSIVE TrimLeftParts(_, _)
TrimLeftParts(parts, cutset) ==
    IF parts # <<>> /\ Head(parts) \in cutset
    THEN TrimLeftParts(Tail(parts), cutset)
    ELSE parts

RECURSIVE TrimRightParts(_, _)
TrimRightParts(parts, cutset) ==
    IF parts # <<>> /\ parts[Len(parts)] \in cutset
    THEN TrimRightParts(SubSeq(parts, 1, Len(parts) - 1), cutset)
    ELSE parts

\* strings.TrimSpace
TrimSpaceParts(parts) == TrimRightParts(TrimLeftParts(parts, {" "}), {" "})

\* cleanableString.UnmarshalXML: stringCleaner.Replace removes the tags,
\* then strings.TrimSpace.  (html.UnescapeString changes no part used here.)
cleanedParts(raw) ==
    TrimSpaceParts(SelectSeq(raw, LAMBDA part : part \notin tagsToClean))

cleaned(raw) == Join(cleanedParts(raw), "")

\* apiDefiningText.UnmarshalXML for a defining text without cross
\* references, examples and usage notes: the cleaned text with the leading
\* colons cut.
formatted(raw) == Join(TrimLeftParts(cleanedParts(raw), {definingTextPrefix}), "")

\* strconv.Atoi succeeds on an optional sign followed by digits only.
AtoiSucceeds(chars) ==
    LET digits == IF chars # <<>> /\ Head(chars) \in {"+", "-"}
                  THEN Tail(chars) ELSE chars
    IN  /\ digits # <<>>
        /\ \A i \in 1..Len(digits) : digits[i] \in Digits

\* &apiSense{}
NewApiSense ==
    [Definitions |-> <<>>, Examples |-> <<>>, Notes |-> <<>>,
     Subsenses |-> <<>>]

XmlToken(name, raw) == [name |-> name, raw |-> raw]

\* The sense positions: "1", "2", "a" and "2 a".
SensePositions == {<<"1">>, <<"2">>, <<"a">>, <<"2", " ", "a">>}

\* The texts of sense dividers and of defining texts.
SenseDividerTexts == {<<"related thing">>, <<"<it>", "also", "</it>">>}
DefiningTexts ==
    {<<":", "a thing">>, <<":", "<it>", "another", "</it>", " ">>}

XmlTokens ==
    {XmlToken(senseTagName, position) : position \in SensePositions}
    \cup {XmlToken(senseDividerTagName, raw) : raw \in SenseDividerTexts}
    \cup {XmlToken(definingTextTagName, raw) : raw \in DefiningTexts}
    \cup {XmlToken(calledAlsoTagName, <<"other">>)}

InitXml ==
    /\ xTokens = <<>>
    /\ xPc = "tokens"
    /\ xSenses = <<>>
    /\ xSubsenses = <<>>
    /\ xSenseIndex = 0
    /\ xCurrentSense = "nil"
    /\ xIsDefinitionContinuation = FALSE
    /\ xOut = <<>>

\* *currentSense, for a currentSense that is not nil.
CurrentSense ==
    IF xCurrentSense = "sense" THEN xSenses[Len(xSenses)]
    ELSE xSubsenses[Len(xSubsenses)]

\* Lines 265-289: case senseTagName.  senseIndex counts from 0.
DecodeSense(t) ==
    IF AtoiSucceeds(t.raw)
    THEN IF Len(xSubsenses) > 0 /\ xSenseIndex + 1 > Len(xSenses)
         THEN \* senses[senseIndex] is out of range
              /\ xPc' = "panic"
              /\ UNCHANGED <<xSenses, xSubsenses, xSenseIndex, xCurrentSense,
                             xIsDefinitionContinuation>>
         ELSE LET withSubsenses ==
                      IF Len(xSubsenses) > 0
                      THEN [xSenses EXCEPT
                               ![xSenseIndex + 1].Subsenses = xSubsenses]
                      ELSE xSenses
              IN  /\ xSenses' = Append(withSubsenses, NewApiSense)
                  /\ xSubsenses' = <<>>
                  /\ xSenseIndex' = IF Len(xSenses) > 0 THEN xSenseIndex + 1
                                    ELSE xSenseIndex
                  /\ xCurrentSense' = "sense"
                  /\ UNCHANGED <<xPc, xIsDefinitionContinuation>>
    ELSE /\ xSubsenses' = Append(xSubsenses, NewApiSense)
         /\ xCurrentSense' = "subsense"
         /\ UNCHANGED <<xPc, xSenses, xSenseIndex, xIsDefinitionContinuation>>

\* The senses and subsenses after *currentSense has become sense.
WithCurrentSense(sense) ==
    IF xCurrentSense = "sense"
    THEN <<[xSenses EXCEPT ![Len(xSenses)] = sense], xSubsenses>>
    ELSE <<xSenses, [xSubsenses EXCEPT ![Len(xSubsenses)] = sense]>>

\* A mutation: the text becomes a definition of its own.
appendAsDefinition(sense, text) ==
    [sense EXCEPT !.Definitions = Append(@, text)]

\* Definitions[lastDefinitionIndex] = Definitions[lastDefinitionIndex] + text
appendToLastDefinition(sense, text) ==
    [sense EXCEPT !.Definitions[Len(sense.Definitions)] = @ \o text]

\* Lines 290-299: case senseDividerTagName.  A nil currentSense and a sense
\* without definitions (index -1) both panic.
DecodeSenseDivider(t) ==
    IF xCurrentSense = "nil" \/ Len(CurrentSense.Definitions) = 0
    THEN /\ xPc' = "panic"
         /\ UNCHANGED <<xSenses, xSubsenses, xSenseIndex, xCurrentSense,
                        xIsDefinitionContinuation>>
    ELSE LET sense == appendToLastDefinition(CurrentSense,
                          senseDividerPrefix \o cleaned(t.raw))
         IN  /\ xSenses' = WithCurrentSense(sense)[1]
             /\ xSubsenses' = WithCurrentSense(sense)[2]
             /\ xIsDefinitionContinuation' = TRUE
             /\ UNCHANGED <<xPc, xSenseIndex, xCurrentSense>>

\* Lines 300-325: case definingTextTagName.
DecodeDefiningText(t) ==
    LET fresh    == Len(xSenses) = 0 \/ xCurrentSense = "nil"
        senses   == IF fresh THEN Append(xSenses, NewApiSense) ELSE xSenses
        current  == IF fresh THEN "sense" ELSE xCurrentSense
        sense    == IF current = "sense" THEN senses[Len(senses)]
                    ELSE xSubsenses[Len(xSubsenses)]
        put(new) == IF current = "sense"
                    THEN <<[senses EXCEPT ![Len(senses)] = new], xSubsenses>>
                    ELSE <<senses,
                           [xSubsenses EXCEPT ![Len(xSubsenses)] = new]>>
    IN  IF ~xIsDefinitionContinuation
        THEN LET new == [sense EXCEPT
                            !.Definitions = Append(@, formatted(t.raw)),
                            !.Examples = <<>>,
                            !.Notes = <<>>]
             IN  /\ xSenses' = put(new)[1]
                 /\ xSubsenses' = put(new)[2]
                 /\ xCurrentSense' = current
                 /\ UNCHANGED <<xPc, xSenseIndex, xIsDefinitionContinuation>>
        ELSE IF Len(sense.Definitions) = 0
        THEN \* lastDefinitionIndex is -1; the new sense stays appended
             /\ xPc' = "panic"
             /\ xSenses' = senses
             /\ xCurrentSense' = current
             /\ UNCHANGED <<xSubsenses, xSenseIndex, xIsDefinitionContinuation>>
        ELSE LET new == appendToLastDefinition(sense,
                            " " \o formatted(t.raw))
             IN  /\ xSenses' = put(new)[1]
                 /\ xSubsenses' = put(new)[2]
                 /\ xCurrentSense' = current
                 /\ xIsDefinitionContinuation' = FALSE
                 /\ UNCHANGED <<xPc, xSenseIndex>>

\* Lines 261-332: one round of the loop, on a start element.
DecodeToken ==
    /\ xPc = "tokens"
    /\ Len(xTokens) < MaxXmlTokens
    /\ \E t \in XmlTokens :
          /\ xTokens' = Append(xTokens, t)
          /\ CASE t.name = senseTagName        -> DecodeSense(t)
               [] t.name = senseDividerTagName -> DecodeSenseDivider(t)
               [] t.name = definingTextTagName -> DecodeDefiningText(t)
               [] OTHER -> UNCHANGED <<xPc, xSenses, xSubsenses, xSenseIndex,
                                       xCurrentSense,
                                       xIsDefinitionContinuation>>
    /\ UNCHANGED xOut

\* Lines 337-342: the decoder is at its end; s.senses is a copy of senses.
ReturnFromUnmarshalXML ==
    /\ xPc = "tokens"
    /\ xPc' = "done"
    /\ xOut' = xSenses
    /\ UNCHANGED <<xTokens, xSenses, xSubsenses, xSenseIndex, xCurrentSense,
                   xIsDefinitionContinuation>>

\* The sense tokens read, in order.
SenseTokens == SelectSeq(xTokens, LAMBDA t : t.name = senseTagName)

\* The places in SenseTokens of the top-level senses.
TopLevelPlaces ==
    {i \in 1..Len(SenseTokens) : AtoiSucceeds(SenseTokens[i].raw)}

\* The number of sub-sense tokens that follow the top-level sense at place i
\* before the next top-level sense or the end of the container.
SubsensesFollowing(i) ==
    LET later == {j \in TopLevelPlaces : j > i}
        next  == IF later = {} THEN Len(SenseTokens) + 1
                 ELSE CHOOSE j \in later : \A l \in later : j <= l
    IN  next - i - 1

\* The decoded sense of the top-level sense at place i: the senses made by
\* sn tokens are the last ones of s.senses.
DecodedSenseOf(i) ==
    xOut[Len(xOut) - Cardinality({j \in TopLevelPlaces : j >= i}) + 1]

\* C11: when UnmarshalXML has returned, every top-level sense, the last one
\* included, holds in its Subsenses the sub-senses (sn tokens whose position
\* is not a number) that follow it before the next top-level sense.
C11_SubsensesUnderPrecedingSense ==
    xPc = "done" =>
        \A i \in TopLevelPlaces :
            Len(DecodedSenseOf(i).Subsenses) = SubsensesFollowing(i)

\* C12: a step that reads a sense divider with text D2 leaves the current
\* sense with as many definitions as before, the last one extended by "; "
\* and D2, so that "a thing" followed by the divider "related thing" is the
\* one definition "a thing; related thing"; the defining text read next is
\* appended to that definition too and is no definition of its own.
C12_ContinuationMerged ==
    [][(xTokens' # xTokens /\ xPc' = "tokens") =>
          LET t      == xTokens'[Len(xTokens')]
              before == CurrentSense.Definitions
              after  == CurrentSense'.Definitions
              last   == before[Len(before)]
          IN  /\ t.name = senseDividerTagName =>
                    /\ Len(after) = Len(before)
                    /\ xCurrentSense' = xCurrentSense
                    /\ \A i \in 1..(Len(before) - 1) : after[i] = before[i]
                    /\ after[Len(after)] = last \o "; " \o cleaned(t.raw)
                    /\ (last = "a thing" /\ t.raw = <<"related thing">>) =>
                           after[Len(after)] = "a thing; related thing"
              /\ (t.name = definingTextTagName
                    /\ xIsDefinitionContinuation) =>
                    /\ Len(after) = Len(before)
                    /\ after[Len(after)] = last \o " " \o formatted(t.raw)
      ]_vars

\* UnmarshalXML has returned for a container of the defining text "a thing"
\* followed by the sense divider "related thing".
C12_Witness ==
    /\ xPc = "done"
    /\ xTokens = <<XmlToken(definingTextTagName, <<":", "a thing">>),
                   XmlToken(senseDividerTagName, <<"related thing">>)>>
    /\ Len(xOut) = 1
    /\ xOut[1].Definitions = <<"a thing; related thing">>

\* C29: the decoder reads every order of sn, sd and dt tokens without a
\* fault: it never reads through a nil currentSense, never indexes
\* Definitions at -1 and never indexes senses while it is empty.
C29_DecoderFaultFree == xPc # "panic"

IdleXml ==
    /\ xTokens = <<>>
    /\ xPc = "idle"
    /\ xSenses = <<>>
    /\ xSubsenses = <<>>
    /\ xSenseIndex = 0
    /\ xCurrentSense = "nil"
    /\ xIsDefinitionContinuation = FALSE
    /\ xOut = <<>>

(***************************************************************************)
(* The Webster normalizer's results (apiDefinitionResults.toResults) and   *)
(* source.EqualFoldPlain.  A headword is a list of runes; "'" stands for   *)
(* the combining acute accent U+0301, "é" and "É" for the precomposed      *)
(* letters.                                                                *)
(***************************************************************************)
CombiningAcute == "'"

\* strings.ReplaceAll(headword, "*", "")
cleanHeadword(headword) == SelectSeq(headword, LAMBDA r : r # "*")

\* norm.NFD: a precomposed letter becomes its base letter and the mark.
NFD(text) ==
    Concat([i \in 1..Len(text) |->
               CASE text[i] = "é" -> <<"e", CombiningAcute>>
                 [] text[i] = "É" -> <<"E", CombiningAcute>>
                 [] OTHER -> <<text[i]>>])

\* RemoveDiacritics: NFD, the runes of category Mn removed, NFC (which has
\* no mark left to compose).
RemoveDiacritics(text) ==
    SelectSeq(NFD(text), LAMBDA r : r # CombiningAcute)

\* The simple case folding of a rune.
FoldRune(r) ==
    CASE r = "A" -> "a" [] r = "C" -> "c" [] r = "E" -> "e" [] r = "F" -> "f"
      [] r = "É" -> "é"
      [] OTHER -> r

\* strings.EqualFold
EqualFold(s, t) ==
    /\ Len(s) = Len(t)
    /\ \A i \in 1..Len(s) : FoldRune(s[i]) = FoldRune(t[i])

\* A mutation: the diacritics are kept.
EqualFoldOnly(s, t) == EqualFold(s, t)

EqualFoldPlain(s, t) == EqualFold(RemoveDiacritics(s), RemoveDiacritics(t))

\* The headwords of the responses.
Headwords ==
    {<<"c", "a", "f", "e">>, <<"c", "a", "*", "f", "é">>,
     <<"C", "A", "F", "E">>, <<"c", "a", "f", "e", CombiningAcute>>,
     <<"c", "a", "f", "f">>, <<"c", "a", "f">>, <<"*", "c", "a", "f", "É">>}

\* An apiDefinitionResult without pronunciations, etymologies and
\* definition sections.
apiDefinitionResult(hw, fl) ==
    [Hwi |-> [Hw |-> hw, Prs |-> <<>>], Fl |-> fl, Et |-> <<>>, Def |-> <<>>]

\* The responses: 1 to MaxApiResults entries, the i-th one of category "fl i".
ApiDefinitionResults ==
    UNION {{[i \in 1..n |-> apiDefinitionResult(hws[i], "fl " \o ToString(i))] :
               hws \in [1..n -> Headwords]} : n \in 1..MaxApiResults}

\* The source.DictionaryEntry of lines 604-628 for an entry of the response.
toSourceEntry(apiEntry) ==
    [Word |-> cleanHeadword(apiEntry.Hwi.Hw),
     LexicalCategory |-> apiEntry.Fl,
     Pronunciations |-> [i \in 1..Len(apiEntry.Hwi.Prs) |->
                            apiEntry.Hwi.Prs[i].Mw],
     Senses |-> <<>>,
     Etymologies |-> <<>>]

\* apiDefinitionResults.toResults, of a response of at least one entry.
toResults(r) ==
    LET mainWord == cleanHeadword(r[1].Hwi.Hw)
        kept == SelectSeq(r, LAMBDA apiEntry :
                    EqualFoldPlain(cleanHeadword(apiEntry.Hwi.Hw), mainWord))
    IN  <<[Language |-> "en",
           Entries |-> [i \in 1..Len(kept) |-> toSourceEntry(kept[i])]]>>

InitWebsterResults ==
    /\ wrApiResults \in ApiDefinitionResults
    /\ wrPc = "start"
    /\ wrResults = <<>>

CallToResults ==
    /\ wrPc = "start"
    /\ wrResults' = toResults(wrApiResults)
    /\ wrPc' = "done"
    /\ UNCHANGED wrApiResults

\* The headword without syllable marks, case and diacritics.
PlainHeadword(hw) ==
    LET unmarked == SelectSeq(hw, LAMBDA r : r \notin {"*", CombiningAcute})
    IN  [i \in 1..Len(unmarked) |->
            CASE unmarked[i] \in {"e", "E", "é", "É"} -> "e"
              [] unmarked[i] \in {"a", "A"} -> "a"
              [] unmarked[i] \in {"c", "C"} -> "c"
              [] unmarked[i] \in {"f", "F"} -> "f"
              [] OTHER -> unmarked[i]]

\* The entries of the response whose headword matches the first one's.
MatchingApiEntries ==
    SelectSeq(wrApiResults, LAMBDA apiEntry :
        PlainHeadword(apiEntry.Hwi.Hw) = PlainHeadword(wrApiResults[1].Hwi.Hw))

\* C13: toResults returns one result; its entries are the entries of the
\* response whose headword, without syllable marks, equals the first
\* entry's headword up to case and diacritics, in source order, each under
\* its headword without syllable marks; the first entry of the response is
\* the first of them, so the result has at least one entry.
C13_OnlyMatchingHeadwordsKept ==
    wrPc = "done" =>
        /\ Len(wrResults) = 1
        /\ Len(wrResults[1].Entries) = Len(MatchingApiEntries)
        /\ Len(wrResults[1].Entries) >= 1
        /\ wrResults[1].Entries[1].LexicalCategory = wrApiResults[1].Fl
        /\ \A i \in 1..Len(MatchingApiEntries) :
              /\ wrResults[1].Entries[i].LexicalCategory
                     = MatchingApiEntries[i].Fl
              /\ wrResults[1].Entries[i].Word
                     = SelectSeq(MatchingApiEntries[i].Hwi.Hw,
                                 LAMBDA r : r # "*")

\* toResults has dropped the second of three entries and kept the third,
\* whose headword differs from the first in syllable marks, case or accents.
C13_Witness ==
    /\ wrPc = "done"
    /\ Len(wrApiResults) = 3
    /\ Len(wrResults[1].Entries) = 2
    /\ wrResults[1].Entries[2].LexicalCategory = "fl 3"
    /\ wrApiResults[3].Hwi.Hw # wrApiResults[1].Hwi.Hw
    /\ wrResults[1].Entries[2].Word # wrResults[1].Entries[1].Word

IdleWebsterResults ==
    /\ wrApiResults = <<>>
    /\ wrPc = "idle"
    /\ wrResults = <<>>

(***************************************************************************)
(* The Oxford source's Define with its inflection fallback.  A word is a   *)
(* list of runes, as for source.EqualFoldPlain.                            *)
(***************************************************************************)
\* A mutation: results of another match type are taken for inflections.
apiSearchResultMatchTypeHeadword == "headword"

apiSearchResultMatchTypeInflection == "inflection"

\* The words the Oxford API knows of: "cafe", "café" and "cafes".
OxfordWords ==
    {<<"c", "a", "f", "e">>, <<"c", "a", "f", "é">>,
     <<"c", "a", "f", "e", "s">>}

apiSearchResult(matchType, word) == [MatchType |-> matchType, Word |-> word]

ApiSearchResults ==
    {apiSearchResult("inflection", word) : word \in OxfordWords}
    \cup {apiSearchResult("headword", <<"c", "a", "f", "e", "s">>)}

\* The Results of the search responses.
ApiSearchResultLists == SeqsUpTo(ApiSearchResults, MaxSearchResults)

\* The API has not been asked about a word yet.
NotAsked == [asked |-> FALSE, found |-> FALSE, results |-> <<>>]

\* The API's answers about a word: its entry is found, or it is not (the
\* status is 404) and a search for the word has the given results.
Answers ==
    {[asked |-> TRUE, found |-> TRUE, results |-> <<>>]}
    \cup {[asked |-> TRUE, found |-> FALSE, results |-> results] :
             results \in ApiSearchResultLists}

InitOxfordDefine ==
    /\ odQuery \in OxfordWords
    /\ odWord = odQuery
    /\ odPc = "define"
    /\ odUpstream = [w \in OxfordWords |-> NotAsked]
    /\ odResults = <<>>
    /\ odErr = NoError

\* The direct definition lookup of the word: the results of a found entry
\* are returned, a not-found one leads to the search.
LookupDefinition ==
    /\ odPc = "define"
    /\ \E answer \in Answers :
          /\ odUpstream[odWord].asked => answer = odUpstream[odWord]
          /\ odUpstream' = [odUpstream EXCEPT ![odWord] = answer]
          /\ IF answer.found
             THEN /\ odResults' = <<DictionaryResult("en", odWord,
                                                     <<BareEntry(odWord)>>)>>
                  /\ odPc' = "returned"
             ELSE /\ odResults' = odResults
                  /\ odPc' = "search"
    /\ UNCHANGED <<odQuery, odWord, odErr>>

\* The results of the search that stand for an inflection of another word
\* than the one looked up.
inflectionCandidates(word, results) ==
    SelectSeq(results, LAMBDA result :
        /\ result.MatchType = apiSearchResultMatchTypeInflection
        /\ ~EqualFoldPlain(result.Word, word))

\* The search-style lookup after a not-found: Define is called again with
\* the first inflection candidate, and without one the call reports an
\* empty result for its word.
SearchForInflection ==
    /\ odPc = "search"
    /\ LET candidates ==
               inflectionCandidates(odWord, odUpstream[odWord].results)
       IN  IF candidates = <<>>
           THEN /\ odErr' = EmptyResultError(odWord)
                /\ odPc' = "returned"
                /\ odWord' = odWord
           ELSE /\ odWord' = candidates[1].Word
                /\ odPc' = "define"
                /\ odErr' = odErr
    /\ UNCHANGED <<odQuery, odUpstream, odResults>>

\* The search results that are inflections of a word other than w up to
\* case and diacritics.
DistinctInflections(w) ==
    {i \in 1..Len(odUpstream[w].results) :
        /\ odUpstream[w].results[i].MatchType = "inflection"
        /\ PlainHeadword(odUpstream[w].results[i].Word) # PlainHeadword(w)}

\* C14: after a not-found lookup of w, Define is called again only with the
\* word of a search result that is an inflection and differs from w up to
\* case and diacritics, and it is called again whenever there is one; when
\* there is none, the call returns the empty-result error of w.
C14_FallbackOnlyToDistinctInflection ==
    [][odPc = "search" =>
          IF DistinctInflections(odWord) = {}
          THEN /\ odPc' = "returned"
               /\ odErr' = EmptyResultError(odWord)
               /\ odResults' = <<>>
          ELSE /\ odPc' = "define"
               /\ odErr' = NoError
               /\ \E i \in DistinctInflections(odWord) :
                     odWord' = odUpstream[odWord].results[i].Word
      ]_vars

\* Define has returned the empty-result error of the word asked for, whose
\* search gave only a result that is no inflection and an inflection that
\* is the word itself up to an accent.
C14_Witness ==
    /\ odPc = "returned"
    /\ odErr = EmptyResultError(odQuery)
    /\ odQuery = <<"c", "a", "f", "e">>
    /\ odUpstream[odQuery].results =
           <<apiSearchResult("headword", <<"c", "a", "f", "e", "s">>),
             apiSearchResult("inflection", <<"c", "a", "f", "é">>)>>

\* C15: every call of Define returns.
C15_DefineReturns == <>(odPc = "returned")

IdleOxfordDefine ==
    /\ odQuery = <<>>
    /\ odWord = <<>>
    /\ odPc = "idle"
    /\ odUpstream = <<>>
    /\ odResults = <<>>
    /\ odErr = NoError

(***************************************************************************)
(* The Stringers of package source.  The Text of an AttributedText is a    *)
(* list of parts, a part being a word, a double quote or a backslash.      *)
(***************************************************************************)
\* Pronunciation.String
PronunciationString(p) == "/" \o p \o "/"

\* A mutation: the parenthesis holds every item, the first one too.
PronunciationsStringAll(p) ==
    LET pronunciationStrings ==
            [i \in 1..Len(p.items) |-> PronunciationString(p.items[i])]
    IN  IF Len(p.items) > 1
        THEN pronunciationStrings[1] \o " ("
                 \o Join(pronunciationStrings, " ") \o ")"
        ELSE IF Len(p.items) > 0 THEN pronunciationStrings[1] ELSE ""

\* Pronunciations.String
PronunciationsString(p) ==
    LET pronunciationStrings ==
            [i \in 1..Len(p.items) |-> PronunciationString(p.items[i])]
        pronunciationText ==
            IF Len(p.items) > 0 THEN PronunciationString(p.items[1]) ELSE ""
    IN  IF Len(p.items) > 1
        THEN pronunciationText \o " ("
                 \o Join(Tail(pronunciationStrings), " ") \o ")"
        ELSE pronunciationText

\* fmt.Sprintf("%q", text): strconv.Quote escapes the double quote and the
\* backslash and wraps the text in double quotes.
SprintfQ(text) ==
    "\"" \o Join([i \in 1..Len(text) |->
                     CASE text[i] = "\"" -> "\\\""
                       [] text[i] = "\\" -> "\\\\"
                       [] OTHER -> text[i]], "") \o "\""

\* A mutation: the source is appended only after an author.
AttributedTextStringNested(t) ==
    IF t.Author # ""
    THEN IF t.Source # ""
         THEN SprintfQ(t.Text) \o " - " \o t.Author \o " (" \o t.Source \o ")"
         ELSE SprintfQ(t.Text) \o " - " \o t.Author
    ELSE SprintfQ(t.Text)

\* AttributedText.String
AttributedTextString(t) ==
    LET text   == SprintfQ(t.Text)
        author == IF t.Author # "" THEN text \o " - " \o t.Author ELSE text
    IN  IF t.Source # "" THEN author \o " (" \o t.Source \o ")" ELSE author

PronunciationItems == {"", "a", "test-1"}

\* nil and the lists of up to MaxPronunciations items.
PronunciationLists ==
    {[isNil |-> TRUE, items |-> <<>>]}
    \cup {[isNil |-> FALSE, items |-> items] :
             items \in SeqsUpTo(PronunciationItems, MaxPronunciations)}

AttributedTexts ==
    {[Text |-> text, Author |-> author, Source |-> source] :
        text \in {<<>>, <<"test">>, <<"a ", "\"", "b", "\\">>},
        author \in {"", "Mr. Testy"},
        source \in {"", "WikiTest"}}

NotReturned == [returned |-> FALSE, text |-> ""]
Returned(text) == [returned |-> TRUE, text |-> text]

FormatCalls ==
    {"Pronunciations.String", "getPronunciationsText", "AttributedText.String"}

InitFormat ==
    /\ fPronunciations \in PronunciationLists
    /\ fAttributedText \in AttributedTexts
    /\ fReturned = [call \in FormatCalls |-> NotReturned]

CallPronunciationsString ==
    /\ ~fReturned["Pronunciations.String"].returned
    /\ fReturned' = [fReturned EXCEPT !["Pronunciations.String"] =
                        Returned(PronunciationsString(fPronunciations))]
    /\ UNCHANGED <<fPronunciations, fAttributedText>>

\* The renderer is handed the items, []string(entry.Pronunciations).
CallGetPronunciationsText ==
    /\ ~fReturned["getPronunciationsText"].returned
    /\ fReturned' = [fReturned EXCEPT !["getPronunciationsText"] =
                        Returned(getPronunciationsText(fPronunciations.items))]
    /\ UNCHANGED <<fPronunciations, fAttributedText>>

CallAttributedTextString ==
    /\ ~fReturned["AttributedText.String"].returned
    /\ fReturned' = [fReturned EXCEPT !["AttributedText.String"] =
                        Returned(AttributedTextString(fAttributedText))]
    /\ UNCHANGED <<fPronunciations, fAttributedText>>

\* The items of a list from the second on, each between slashes and a
\* single space before each but the first.
RECURSIVE SlashedRest(_, _)
SlashedRest(items, i) ==
    IF i > Len(items) THEN ""
    ELSE (IF i > 2 THEN " " ELSE "") \o "/" \o items[i] \o "/"
             \o SlashedRest(items, i + 1)

\* The text the claim gives for a list of pronunciations.
FormattedPronunciations(items) ==
    CASE Len(items) = 0 -> ""
      [] Len(items) = 1 -> "/" \o items[1] \o "/"
      [] OTHER -> "/" \o items[1] \o "/ (" \o SlashedRest(items, 2) \o ")"

\* C16: Pronunciations.String returns "" for a nil or empty list, "/x/" for
\* the single item x, and for more items the first one between slashes, a
\* space, and in parentheses the other items between slashes with single
\* spaces between them ("/a/ (/b/ /c/)"); getPronunciationsText returns the
\* same text for the same list.
C16_PronunciationsText ==
    LET string == fReturned["Pronunciations.String"]
        text   == fReturned["getPronunciationsText"]
    IN  /\ string.returned =>
              string.text = FormattedPronunciations(fPronunciations.items)
        /\ (string.returned /\ text.returned) => string.text = text.text
        /\ (string.returned
              /\ fPronunciations.items = <<"a", "test-1", "a">>) =>
              string.text = "/a/ (/test-1/ /a/)"

\* Both functions have returned for a list of three items.
C16_Witness ==
    /\ fReturned["Pronunciations.String"].returned
    /\ fReturned["getPronunciationsText"].returned
    /\ Len(fPronunciations.items) = 3
    /\ fPronunciations.items[2] # fPronunciations.items[1]

\* C17: AttributedText.String returns the quoted text, then " - " and the
\* author exactly when there is an author, then " (", the source and ")"
\* exactly when there is a source, with or without an author.
C17_AttributedTextString ==
    LET t      == fAttributedText
        string == fReturned["AttributedText.String"]
        quoted == CASE t.Text = <<>> -> "\"\""
                    [] t.Text = <<"test">> -> "\"test\""
                    [] OTHER -> SprintfQ(t.Text)
    IN  string.returned =>
           string.text =
               quoted
               \o (IF t.Author = "" THEN "" ELSE " - " \o t.Author)
               \o (IF t.Source = "" THEN "" ELSE " (" \o t.Source \o ")")

\* String has returned for a text with a source and no author.
C17_Witness ==
    /\ fReturned["AttributedText.String"].returned
    /\ fAttributedText.Author = ""
    /\ fAttributedText.Source = "WikiTest"
    /\ fReturned["AttributedText.String"].text = "\"test\" (WikiTest)"

IdleFormat ==
    /\ fPronunciations = [isNil |-> TRUE, items |-> <<>>]
    /\ fAttributedText = [Text |-> <<>>, Author |-> "", Source |-> ""]
    /\ fReturned = <<>>

(***************************************************************************)
(* io.PanicWriter as its clients drive it: nested IndentWrites and         *)
(* IndentWritesBy callbacks, and writes on a sink that may return an error.*)
(***************************************************************************)
\* Write: the bytes handed to w.inner.Write.
Write(w, p) == IF 0 < w.spaces THEN Repeat(" ", w.spaces) \o p ELSE p

\* A mutation: the error of Write is dropped.
WriteBytesIgnoringError(err) == "running"

\* WriteBytes: panic(err) when Write returned an error.
WriteBytes(err) == IF err THEN "panic" ELSE "running"

\* A mutation: the spaces are added to the writer itself, which is handed
\* to the callback.
indentedInPlace(writers, ref, spaces) ==
    [writers |-> [writers EXCEPT ![ref].spaces = @ + spaces], ref |-> ref]

\* indented: a new PanicWriter of the same inner writer and step size, with
\* the spaces added; writers are the values allocated, ref is w.
indentedWriter(writers, ref, spaces) ==
    [writers |-> Append(writers, indented(writers[ref], spaces)),
     ref |-> Len(writers) + 1]

\* The amounts of spaces a client asks IndentWritesBy for.
IndentAmounts == {0, 3}

\* The texts a client writes.
WrittenTexts == {"", "x"}

InitWriter ==
    /\ \E indentStepSize \in IndentStepSizes :
          pwWriters = <<NewPanicWriter(indentStepSize)>>
    /\ pwStack = <<1>>
    /\ pwCalls = <<>>
    /\ pwWrites = <<>>
    /\ pwLastReturn = [before |-> 0, after |-> 0]
    /\ pwPc = "running"

\* The writer of the innermost running callback.
CurrentRef == pwStack[Len(pwStack)]
CurrentWriter == pwWriters[CurrentRef]

\* writesFunc(w.indented(spaces)) up to the start of writesFunc.
EnterCallback(method, spaces) ==
    LET made == indentedWriter(pwWriters, CurrentRef, spaces)
    IN  /\ pwWriters' = made.writers
        /\ pwStack' = Append(pwStack, made.ref)
        /\ pwCalls' = Append(pwCalls, [method |-> method, asked |-> spaces,
                                       enclosing |-> CurrentWriter.spaces])
        /\ UNCHANGED <<pwWrites, pwLastReturn, pwPc>>

CallIndentWrites ==
    /\ pwPc = "running"
    /\ Len(pwCalls) < MaxIndentDepth
    /\ EnterCallback("IndentWrites", CurrentWriter.indentStepSize)

CallIndentWritesBy ==
    /\ pwPc = "running"
    /\ Len(pwCalls) < MaxIndentDepth
    /\ \E spaces \in IndentAmounts : EnterCallback("IndentWritesBy", spaces)

\* writesFunc returns: the caller goes on with its own writer, and the
\* writer made for the callback is garbage.
ReturnFromCallback ==
    /\ pwPc = "running"
    /\ Len(pwCalls) > 0
    /\ LET stack  == SubSeq(pwStack, 1, Len(pwStack) - 1)
           live   == {stack[i] : i \in 1..Len(stack)}
           last   == CHOOSE r \in live : \A q \in live : q <= r
       IN  /\ pwStack' = stack
           /\ pwWriters' = SubSeq(pwWriters, 1, last)
           /\ pwLastReturn' =
                  [before |-> pwCalls[Len(pwCalls)].enclosing,
                   after  |-> pwWriters[stack[Len(stack)]].spaces]
    /\ pwCalls' = SubSeq(pwCalls, 1, Len(pwCalls) - 1)
    /\ UNCHANGED <<pwWrites, pwPc>>

\* The spaces asked for by the running callbacks together.
RECURSIVE SpacesAsked(_)
SpacesAsked(calls) ==
    IF calls = <<>> THEN 0
    ELSE calls[Len(calls)].asked
             + SpacesAsked(SubSeq(calls, 1, Len(calls) - 1))

\* One Write call on the sink, which returns the error err.
SinkWrite(p, err) ==
    [bytes |-> Write(CurrentWriter, p), p |-> p, err |-> err,
     asked |-> SpacesAsked(pwCalls)]

\* WriteBytes / WriteString of a text.
CallWriteString ==
    /\ pwPc = "running"
    /\ Len(pwWrites) < MaxWrites
    /\ \E p \in WrittenTexts, err \in BOOLEAN :
          /\ pwWrites' = Append(pwWrites, SinkWrite(p, err))
          /\ pwPc' = WriteBytes(err)
    /\ UNCHANGED <<pwWriters, pwStack, pwCalls, pwLastReturn>>

\* WriteStringLine: w.WriteString(p) + w.WriteNewLine(), left to right.
CallWriteStringLine ==
    /\ pwPc = "running"
    /\ Len(pwWrites) + 1 < MaxWrites
    /\ \E p \in WrittenTexts, err1 \in BOOLEAN, err2 \in BOOLEAN :
          IF WriteBytes(err1) = "panic"
          THEN /\ pwWrites' = Append(pwWrites, SinkWrite(p, err1))
               /\ pwPc' = "panic"
               /\ err2 = FALSE
          ELSE /\ pwWrites' = pwWrites \o <<SinkWrite(p, err1),
                                            SinkWrite("\n", err2)>>
               /\ pwPc' = WriteBytes(err2)
    /\ UNCHANGED <<pwWriters, pwStack, pwCalls, pwLastReturn>>

\* The client has made its last call and every callback has returned.
FinishWriting ==
    /\ pwPc = "running"
    /\ Len(pwCalls) = 0
    /\ pwPc' = "done"
    /\ UNCHANGED <<pwWriters, pwStack, pwCalls, pwWrites, pwLastReturn>>

\* C18: a Write on the sink that returned an error is the last Write of the
\* render and leaves the writer panicking, and the writer panics for no
\* other reason; the writes the sink has received stay as they are, none
\* is taken back or made again.
C18_WriteErrorPanics ==
    /\ [](/\ \A i \in 1..Len(pwWrites) :
                pwWrites[i].err => i = Len(pwWrites)
          /\ pwPc = "panic" <=>
                (pwWrites # <<>> /\ pwWrites[Len(pwWrites)].err))
    /\ [][/\ Len(pwWrites') >= Len(pwWrites)
          /\ SubSeq(pwWrites', 1, Len(pwWrites)) = pwWrites
          /\ pwPc = "panic" => pwWrites' = pwWrites]_vars

\* The second Write of a render returned an error after the first succeeded.
C18_Witness ==
    /\ pwPc = "panic"
    /\ Len(pwWrites) = 2
    /\ ~pwWrites[1].err
    /\ pwWrites[2].err

\* C19: the writer of a running callback has the spaces of the enclosing
\* writer plus the spaces asked for, which for IndentWrites is the step
\* size; every Write through a writer hands the sink the text behind as
\* many spaces as the running callbacks asked for together; the enclosing
\* writer has during the callback, and after its return, the spaces it had
\* at the call.
C19_IndentationScoped ==
    /\ \A k \in 1..Len(pwCalls) :
          /\ pwWriters[pwStack[k + 1]].spaces
                 = pwCalls[k].enclosing + pwCalls[k].asked
          /\ pwWriters[pwStack[k]].spaces = pwCalls[k].enclosing
          /\ pwCalls[k].method = "IndentWrites" =>
                 pwCalls[k].asked = pwWriters[1].indentStepSize
    /\ pwWriters[pwStack[1]].spaces = 0
    /\ pwLastReturn.after = pwLastReturn.before
    /\ \A i \in 1..Len(pwWrites) :
          pwWrites[i].bytes = Repeat(" ", pwWrites[i].asked) \o pwWrites[i].p

\* Both callbacks of a nested IndentWrites and IndentWritesBy(3) have
\* returned after a write behind five spaces.
C19_Witness ==
    /\ pwPc = "running"
    /\ Len(pwCalls) = 0
    /\ Len(pwWrites) = 2
    /\ pwWrites[1].bytes = "     x"
    /\ pwWrites[2].bytes = "x"
    /\ pwLastReturn = [before |-> 0, after |-> 0]

IdleWriter ==
    /\ pwWriters = <<>>
    /\ pwStack = <<>>
    /\ pwCalls = <<>>
    /\ pwWrites = <<>>
    /\ pwLastReturn = [before |-> 0, after |-> 0]
    /\ pwPc = "idle"

(***************************************************************************)
(* config.NewFromRuntime: the Configuration merged from the command line   *)
(* flags, the environment, the config file and the defaults.               *)
(***************************************************************************)
ConfigFields == {"IndentationSize", "PreferredSource", "Source"}

\* The zero value of a field of Configuration.
ZeroValue(field) == IF field = "IndentationSize" THEN 0 ELSE ""

\* var conf Configuration
ZeroConfiguration ==
    [IndentationSize |-> 0, PreferredSource |-> "", Source |-> ""]

\* The defaults the command passes.
defaultIndentationSize == 2
defaultPreferredSource == "oxford"

\* A flag of the command line: whether it was passed, and its value.
NotPassed(field) == [passed |-> FALSE, value |-> ZeroValue(field)]
Passed(value)    == [passed |-> TRUE, value |-> value]

CommandLines ==
    [IndentationSize : {NotPassed("IndentationSize"), Passed(0), Passed(4)},
     PreferredSource : {NotPassed("PreferredSource"), Passed(""),
                        Passed("webster")},
     Source          : {NotPassed("Source"), Passed(""), Passed("webster")},
     noConfigFile    : BOOLEAN]

\* os.Getenv gives "" for a variable that is not set.
Environments ==
    [DEFINE_APP_INDENT_SIZE      : {<<>>, <<"3">>, <<"x">>},
     DEFINE_APP_PREFERRED_SOURCE : {"", "glosbe"},
     DEFINE_APP_SOURCE           : {"", "glosbe"}]

\* A key of the config file: whether the file holds it, and its value.
NoKey(field) == [set |-> FALSE, value |-> ZeroValue(field)]
Key(value)   == [set |-> TRUE, value |-> value]

NoConfigFile ==
    [found |-> FALSE,
     keys  |-> [IndentationSize |-> NoKey("IndentationSize"),
                PreferredSource |-> NoKey("PreferredSource"),
                Source          |-> NoKey("Source")]]

ConfigFiles ==
    {NoConfigFile} \cup
    [found : {TRUE},
     keys  : [IndentationSize : {NoKey("IndentationSize"), Key(5)},
              PreferredSource : {NoKey("PreferredSource"), Key("wiktionary")},
              Source          : {NoKey("Source"), Key("wiktionary")}]]

InitConfig ==
    /\ cfArgs \in CommandLines
    /\ cfEnviron \in Environments
    /\ cfFile \in ConfigFiles
    /\ cfDefaults = [IndentationSize |-> defaultIndentationSize,
                     PreferredSource |-> defaultPreferredSource,
                     Source          |-> ""]
    /\ cfCommandLine = ZeroConfiguration
    /\ cfFileConfig = ZeroConfiguration
    /\ cfConf = ZeroConfiguration
    /\ cfErr = FALSE
    /\ cfPc = "start"

\* strconv.ParseUint(s, 10, 0)
ParseUint(chars) ==
    LET ok == chars # <<>> /\ \A i \in 1..Len(chars) : chars[i] \in Digits
    IN  [ok |-> ok, val |-> IF ok THEN Atoi(chars) ELSE 0]

\* The value a flag variable holds after flags.Parse: the value passed, or
\* the default value the flag was defined with.
FlagValue(flag, default) == IF flag.passed THEN flag.value ELSE default

initializeCommandLineConfig(defaults) ==
    [IndentationSize |-> FlagValue(cfArgs.IndentationSize,
                                   defaults.IndentationSize),
     PreferredSource |-> FlagValue(cfArgs.PreferredSource,
                                   defaults.PreferredSource),
     Source          |-> FlagValue(cfArgs.Source, defaults.Source)]

initializeEnvironmentConfig ==
    LET parsed == ParseUint(cfEnviron.DEFINE_APP_INDENT_SIZE)
    IN  [IndentationSize |-> IF parsed.ok THEN parsed.val ELSE 0,
         PreferredSource |-> cfEnviron.DEFINE_APP_PREFERRED_SOURCE,
         Source          |-> cfEnviron.DEFINE_APP_SOURCE]

\* json.Unmarshal into a zero Configuration
initializeFileConfig ==
    [IndentationSize |-> cfFile.keys.IndentationSize.value,
     PreferredSource |-> cfFile.keys.PreferredSource.value,
     Source          |-> cfFile.keys.Source.value]

\* mergo.Merge(&dst, src) fills the zero-valued fields of dst from src.
Merge(dst, src) ==
    [IndentationSize |-> IF dst.IndentationSize = 0
                         THEN src.IndentationSize ELSE dst.IndentationSize,
     PreferredSource |-> IF dst.PreferredSource = ""
                         THEN src.PreferredSource ELSE dst.PreferredSource,
     Source          |-> IF dst.Source = ""
                         THEN src.Source ELSE dst.Source]

RECURSIVE mergeInto(_, _)
mergeInto(merged, confs) ==
    IF confs = <<>> THEN merged
    ELSE mergeInto(Merge(merged, Head(confs)), Tail(confs))

mergeConfigurations(confs) == mergeInto(ZeroConfiguration, confs)

\* initializeCommandLineConfig(flags, defaults) and flags.Parse(os.Args[1:])
ParseFlags ==
    /\ cfPc = "start"
    /\ \E parseErr \in BOOLEAN :
          /\ cfCommandLine' = initializeCommandLineConfig(cfDefaults)
          /\ cfErr' = parseErr
          /\ cfPc' = IF parseErr THEN "returned" ELSE "parsed"
    /\ UNCHANGED <<cfArgs, cfEnviron, cfFile, cfDefaults, cfFileConfig,
                   cfConf>>

\* The config file is read unless --no-config-file was passed or no path
\* is known; a read or decode error is returned.
LoadConfigFile ==
    /\ cfPc = "parsed"
    /\ IF ~cfArgs.noConfigFile /\ cfFile.found
       THEN \E readErr \in BOOLEAN :
               /\ cfFileConfig' = IF readErr THEN ZeroConfiguration
                                  ELSE initializeFileConfig
               /\ cfErr' = readErr
               /\ cfPc' = IF readErr THEN "returned" ELSE "loaded"
       ELSE /\ cfPc' = "loaded"
            /\ UNCHANGED <<cfFileConfig, cfErr>>
    /\ UNCHANGED <<cfArgs, cfEnviron, cfFile, cfDefaults, cfCommandLine,
                   cfConf>>

MergeAndReturn ==
    /\ cfPc = "loaded"
    /\ cfConf' = mergeConfigurations(<<cfCommandLine,
                                       initializeEnvironmentConfig,
                                       cfFileConfig,
                                       cfDefaults>>)
    /\ cfPc' = "returned"
    /\ UNCHANGED <<cfArgs, cfEnviron, cfFile, cfDefaults, cfCommandLine,
                   cfFileConfig, cfErr>>

\* Whether a means of configuration sets a value, and to what.
FlagSets(field) == cfArgs[field].passed

EnvironmentValue(field) == initializeEnvironmentConfig[field]

EnvironmentSets(field) ==
    IF field = "IndentationSize"
    THEN ParseUint(cfEnviron.DEFINE_APP_INDENT_SIZE).ok
    ELSE EnvironmentValue(field) # ""

FileSets(field) ==
    ~cfArgs.noConfigFile /\ cfFile.found /\ cfFile.keys[field].set

HighestPriorityValue(field) ==
    IF FlagSets(field) THEN cfArgs[field].value
    ELSE IF EnvironmentSets(field) THEN EnvironmentValue(field)
    ELSE IF FileSets(field) THEN cfFile.keys[field].value
    ELSE cfDefaults[field]

\* C20: every value of the Configuration that NewFromRuntime returns
\* without an error is the value of the first means that sets it, in the
\* order command line flag, environment variable, config file, default.
C20_HighestPriorityMeansWins ==
    (cfPc = "returned" /\ ~cfErr) =>
        \A field \in ConfigFields :
            cfConf[field] = HighestPriorityValue(field)

\* internal/config: initializeCommandLineConfig(flags) defines every flag
\* with the zero value as its default, and flags.Parse(os.Args[1:]).
ParseFlagsZeroDefaults ==
    /\ cfPc = "start"
    /\ \E parseErr \in BOOLEAN :
          /\ cfCommandLine' = initializeCommandLineConfig(ZeroConfiguration)
          /\ cfErr' = parseErr
          /\ cfPc' = IF parseErr THEN "returned" ELSE "parsed"
    /\ UNCHANGED <<cfArgs, cfEnviron, cfFile, cfDefaults, cfFileConfig,
                   cfConf>>

\* internal/config: the config file is merged before the environment.
MergeFileBeforeEnvironment ==
    /\ cfPc = "loaded"
    /\ cfConf' = mergeConfigurations(<<cfCommandLine,
                                       cfFileConfig,
                                       initializeEnvironmentConfig,
                                       cfDefaults>>)
    /\ cfPc' = "returned"
    /\ UNCHANGED <<cfArgs, cfEnviron, cfFile, cfDefaults, cfCommandLine,
                   cfFileConfig, cfErr>>

\* C21: every value passed by a command line flag, the zero value of its
\* type included, is the value of the Configuration that NewFromRuntime
\* returns without an error, whatever the environment, the config file and
\* the defaults hold.
C21_PassedFlagWins ==
    (cfPc = "returned" /\ ~cfErr) =>
        \A field \in ConfigFields :
            FlagSets(field) => cfConf[field] = cfArgs[field].value

IdleConfig ==
    /\ cfArgs = [IndentationSize |-> NotPassed("IndentationSize"),
                 PreferredSource |-> NotPassed("PreferredSource"),
                 Source          |-> NotPassed("Source"),
                 noConfigFile    |-> FALSE]
    /\ cfEnviron = [DEFINE_APP_INDENT_SIZE      |-> <<>>,
                    DEFINE_APP_PREFERRED_SOURCE |-> "",
                    DEFINE_APP_SOURCE           |-> ""]
    /\ cfFile = NoConfigFile
    /\ cfDefaults = ZeroConfiguration
    /\ cfCommandLine = ZeroConfiguration
    /\ cfFileConfig = ZeroConfiguration
    /\ cfConf = ZeroConfiguration
    /\ cfErr = FALSE
    /\ cfPc = "idle"

(***************************************************************************)
(* registry.ProvidePreferred: the source of the preferred provider, or of  *)
(* another provider that can provide one.                                  *)
(***************************************************************************)
\* The keys of the registered providers, as Configuration.JSONKey gives them.
RegisteredKeys ==
    {<<"oxford", "webster", "glosbe", "wiktionary", "free">>[i] :
        i \in 1..MaxProviders}

\* The lists of configurations of distinct providers; a configuration is
\* its key and whether the provider can provide a source with it.
RECURSIVE ConfigurationLists(_)
ConfigurationLists(n) ==
    IF n = 0 THEN {<<>>}
    ELSE LET shorter == ConfigurationLists(n - 1)
         IN  shorter \cup
             {Append(l, [key |-> k, provides |-> b]) :
                 l \in {x \in shorter : Len(x) = n - 1},
                 k \in RegisteredKeys, b \in BOOLEAN}

DistinctKeys(confs) ==
    \A i, j \in 1..Len(confs) : confs[i].key = confs[j].key => i = j

NilSource == [isNil |-> TRUE, key |-> ""]

InitProvide ==
    /\ ppPreferred \in RegisteredKeys \cup {"", "unknown"}
    /\ ppConfs \in {l \in ConfigurationLists(MaxProviders) : DistinctKeys(l)}
    /\ ppI = 1
    /\ ppSrc = NilSource
    /\ ppErr = FALSE
    /\ ppProvided = <<>>
    /\ ppPc = "start"

\* Provide(conf): the provider's source and a nil error, or a nil source
\* and the provider's error.
Provide(conf) ==
    IF conf.provides
    THEN [src |-> [isNil |-> FALSE, key |-> conf.key], err |-> FALSE]
    ELSE [src |-> NilSource, err |-> TRUE]

\* A mutation: the preferred provider is asked only while no source is held.
askProviderUntilFirst(src, err, preferredProvider, providerConf) ==
    src.isNil \/ err

\* The condition of line 137.
askProvider(src, err, preferredProvider, providerConf) ==
    src.isNil \/ err \/ preferredProvider = providerConf.key

\* Lines 129-134.
CallProvidePreferred ==
    /\ ppPc = "start"
    /\ IF Len(ppConfs) < 1
       THEN /\ ppErr' = TRUE
            /\ ppPc' = "returned"
       ELSE /\ ppPc' = "loop"
            /\ UNCHANGED ppErr
    /\ UNCHANGED <<ppPreferred, ppConfs, ppI, ppSrc, ppProvided>>

\* Lines 136-144: one round of the loop.
NextProviderConf ==
    /\ ppPc = "loop"
    /\ ppI <= Len(ppConfs)
    /\ LET providerConf == ppConfs[ppI]
           provided == Provide(providerConf)
       IN  IF askProvider(ppSrc, ppErr, ppPreferred, providerConf)
           THEN /\ ppProvided' = Append(ppProvided, providerConf.key)
                /\ IF ~provided.src.isNil /\ ~provided.err
                   THEN /\ ppSrc' = provided.src
                        /\ ppErr' = provided.err
                   ELSE UNCHANGED <<ppSrc, ppErr>>
           ELSE UNCHANGED <<ppSrc, ppErr, ppProvided>>
    /\ ppI' = ppI + 1
    /\ UNCHANGED <<ppPreferred, ppConfs, ppPc>>

\* Line 146.
ReturnFromProvidePreferred ==
    /\ ppPc = "loop"
    /\ ppI > Len(ppConfs)
    /\ ppPc' = "returned"
    /\ UNCHANGED <<ppPreferred, ppConfs, ppI, ppSrc, ppErr, ppProvided>>

\* The configurations of the list the provider of which can provide.
Providing == {i \in 1..Len(ppConfs) : ppConfs[i].provides}

PreferredProvides ==
    \E i \in Providing : ppConfs[i].key = ppPreferred

\* C22: ProvidePreferred returns the source of the provider with the
\* preferred key whenever that provider can provide, wherever it stands in
\* confs and whatever the others do; when it cannot, or no configuration
\* has the key, and another provider can provide, it returns a source of
\* another provider that can provide, with a nil error.
C22_PreferredOrFallback ==
    ppPc = "returned" =>
        /\ PreferredProvides =>
              /\ ppSrc = [isNil |-> FALSE, key |-> ppPreferred]
              /\ ~ppErr
        /\ (~PreferredProvides /\ Providing # {}) =>
              /\ ~ppSrc.isNil
              /\ ppSrc.key # ppPreferred
              /\ \E i \in Providing : ppConfs[i].key = ppSrc.key
              /\ ~ppErr

\* The preferred provider stands last of three, after one that can provide,
\* and its source was returned.
C22_Witness ==
    /\ ppPc = "returned"
    /\ Len(ppConfs) = 3
    /\ ppConfs[1].provides
    /\ ppConfs[3].key = ppPreferred
    /\ ppConfs[3].provides
    /\ ppSrc = [isNil |-> FALSE, key |-> ppPreferred]

\* C27: ProvidePreferred never returns a nil source with a nil error.
C27_NilSourceHasError ==
    ppPc = "returned" => ~(ppSrc.isNil /\ ~ppErr)

IdleProvide ==
    /\ ppPreferred = ""
    /\ ppConfs = <<>>
    /\ ppI = 1
    /\ ppSrc = NilSource
    /\ ppErr = FALSE
    /\ ppProvided = <<>>
    /\ ppPc = "idle"

(***************************************************************************)
(* registry.Finalize: the loaded configurations are told so, under the     *)
(* package's sync.Once.                                                    *)
(***************************************************************************)
ProviderKeys == {"OxfordDictionary", "MerriamWebsterDictionary", "GlosbeAPI"}

InitFinalize ==
    /\ fzDynamic \in SUBSET ProviderKeys
    /\ fzCalls = <<>>
    /\ fzOnce = FALSE
    /\ fzFinalized = {}

\* A mutation: every call runs the function.
OnceDoAlways(once) == TRUE

\* sync.Once.Do runs its function on the first call only.
OnceDo(once) == ~once

\* Finalize(confs...)
CallFinalize ==
    /\ Len(fzCalls) < MaxFinalizeCalls
    /\ \E confs \in SUBSET ProviderKeys :
          /\ fzCalls' = Append(fzCalls, confs)
          /\ IF OnceDo(fzOnce)
             THEN /\ fzFinalized' = fzFinalized \cup (confs \cap fzDynamic)
                  /\ fzOnce' = TRUE
             ELSE UNCHANGED <<fzFinalized, fzOnce>>
    /\ UNCHANGED fzDynamic

\* C23: after any sequence of registry.Finalize calls, every configuration
\* passed to one of them that implements DynamicConfiguration has had its
\* Finalize method invoked.
C23_EveryPassedConfigurationFinalized ==
    \A n \in 1..Len(fzCalls) :
        \A key \in fzCalls[n] \cap fzDynamic : key \in fzFinalized

IdleFinalize ==
    /\ fzDynamic = {}
    /\ fzCalls = <<>>
    /\ fzOnce = TRUE
    /\ fzFinalized = {}

(***************************************************************************)
(* The Oxford search normalizer, apiSearchResponse.toResults.  A score is  *)
(* a whole number of tenths.                                               *)
(***************************************************************************)
Scores == {1, 2, 3}

\* The search responses: the result at place i has the label of place i.
ScoredResults ==
    UNION {[1..n -> Scores] : n \in 0..MaxScoredResults}

scoredResult(i, score) ==
    [Label |-> <<"cat", "cats", "catty", "cater", "catch">>[i],
     Score |-> score]

InitOxfordSearch ==
    /\ \E scores \in ScoredResults :
          osResults = [i \in 1..Len(scores) |-> scoredResult(i, scores[i])]
    /\ osApiResults = <<>>
    /\ osSourceResults = <<>>
    /\ osPc = "start"

\* The less function handed to sort.Slice: both sides read apiResults[i].
less(apiResults, i, j) == apiResults[i].Score < apiResults[i].Score

\* The orders sort.Slice may leave a slice in: it is not stable, so every
\* arrangement of the elements in which no element is less than an earlier
\* one, less being applied to the places of the arrangement.
SortSliceOutcomes(slice) ==
    {[i \in 1..Len(slice) |-> slice[perm[i]]] :
        perm \in {f \in [1..Len(slice) -> 1..Len(slice)] :
                     \A i, j \in 1..Len(slice) : f[i] = f[j] => i = j}}

SortedByLess(apiResults) ==
    \A i, j \in 1..Len(apiResults) : i < j => ~less(apiResults, j, i)

\* sort.Slice(apiResults, less)
SortResultsByScore ==
    /\ osPc = "start"
    /\ \E sorted \in SortSliceOutcomes(osResults) :
          /\ SortedByLess(sorted)
          /\ osApiResults' = sorted
    /\ osPc' = "sorted"
    /\ UNCHANGED <<osResults, osSourceResults>>

\* The loop over apiResults, and the return.
ReturnSearchResults ==
    /\ osPc = "sorted"
    /\ osSourceResults' =
           [i \in 1..Len(osApiResults) |-> osApiResults[i].Label]
    /\ osPc' = "returned"
    /\ UNCHANGED <<osResults, osApiResults>>

\* The score the response gives a label.
ScoreOfLabel(label) ==
    osResults[CHOOSE i \in 1..Len(osResults) :
                  osResults[i].Label = label].Score

\* C24: the labels toResults returns stand in an order that is monotone in
\* the scores of the response: never falling, or never rising.
C24_ResultsSortedByScore ==
    osPc = "returned" =>
        \/ \A i, j \in 1..Len(osSourceResults) :
              i < j => ScoreOfLabel(osSourceResults[i])
                           <= ScoreOfLabel(osSourceResults[j])
        \/ \A i, j \in 1..Len(osSourceResults) :
              i < j => ScoreOfLabel(osSourceResults[i])
                           >= ScoreOfLabel(osSourceResults[j])

IdleOxfordSearch ==
    /\ osResults = <<>>
    /\ osApiResults = <<>>
    /\ osSourceResults = <<>>
    /\ osPc = "idle"

(***************************************************************************)
(* The Webster API source (package webster): makeAPIRequest with the       *)
(* decoding of the raw response, Define and Search.                        *)
(***************************************************************************)
\* The items of a response body by the first byte of their JSON text: a
\* quoted string, an object, or something else (a number).
StringItem(text) == [json |-> "string", text |-> text, hw |-> <<>>]
ObjectItem(hw)   == [json |-> "object", text |-> "", hw |-> hw]
NumberItem       == [json |-> "number", text |-> "1", hw |-> <<>>]

\* The items that may stand at place n of the body.
ResponseItems(n) ==
    {StringItem(<<"cat", "cats", "catty", "cater">>[n]),
     ObjectItem(<<"c", "a", "*", "t">>),
     NumberItem}

ResponseBodies ==
    UNION {{[i \in 1..n |-> f[i]] :
               f \in {g \in [1..n -> UNION {ResponseItems(k) : k \in 1..n}] :
                         \A i \in 1..n : g[i] \in ResponseItems(i)}} :
           n \in 0..MaxResponseItems}

SearchLimits == 0..3

NotCalled ==
    [called |-> FALSE, results |-> NilResults, err |-> NoError,
     panic |-> FALSE, limit |-> 0]

ApiReturned(results, err, limit) ==
    [called |-> TRUE, results |-> results, err |-> err, panic |-> FALSE,
     limit |-> limit]

\* An index out of range stops the call.
Panicked(limit) ==
    [called |-> TRUE, results |-> NilResults, err |-> NoError,
     panic |-> TRUE, limit |-> limit]

InitWebsterApi ==
    /\ waWord = "cat"
    /\ waBody \in ResponseBodies
    /\ waDefine = NotCalled
    /\ waSearch = NotCalled

JSONError == [kind |-> "json"]

\* replaceData: the body decoded as a list of T; an item of another JSON
\* type is an error.
replaceData(data, json, T) ==
    IF \A i \in 1..Len(data) : data[i].json = json
    THEN [raw |-> [i \in 1..Len(data) |->
                      [type |-> T, text |-> data[i].text, hw |-> data[i].hw]],
          err |-> NoError]
    ELSE [raw |-> <<>>, err |-> JSONError]

\* apiRawResponse.UnmarshalJSON
UnmarshalRawResponse(data) ==
    IF Len(data) < 1 THEN [raw |-> <<>>, err |-> NoError]
    ELSE CASE data[1].json = "string" ->
                  replaceData(data, "string", "apiSearchResult")
           [] data[1].json = "object" ->
                  replaceData(data, "object", "apiDefinitionResult")
           [] OTHER -> [raw |-> <<>>, err |-> NoError]

\* A mutation: the decoded response is returned whatever its length.
makeAPIRequestUnchecked(word, body) == UnmarshalRawResponse(body)

\* makeAPIRequest, from the response body on.
makeAPIRequest(word, body) ==
    LET decoded == UnmarshalRawResponse(body)
    IN  IF decoded.err # NoError THEN decoded
        ELSE IF Len(decoded.raw) < 1
        THEN [raw |-> <<>>, err |-> EmptyResultError(word)]
        ELSE decoded

\* apiSearchResults.toResults
searchToResults(r) == [i \in 1..Len(r) |-> r[i].text]

\* source.ValidateAndReturnSearchResults
ValidateAndReturnSearchResults(word, results) ==
    IF Len(results) < 1 THEN <<NilResults, EmptyResultError(word)>>
    ELSE <<Results(results), NoError>>

\* A mutation: every limit of one and more cuts the results.
limitAppliesFromOne(limit, results) == limit >= 1 /\ limit < Len(results)

\* The condition of line 102.
limitApplies(limit, results) == limit > 1 /\ limit < Len(results)

Define(word, body) ==
    LET request == makeAPIRequest(word, body)
        rawResponse == request.raw
    IN  IF request.err # NoError
        THEN ApiReturned(NilResults, request.err, 0)
        ELSE IF Len(rawResponse) < 1 THEN Panicked(0)
        ELSE CASE rawResponse[1].type = "apiSearchResult" ->
                      ApiReturned(NilResults, EmptyResultError(word), 0)
               [] rawResponse[1].type = "apiDefinitionResult" ->
                      LET response == [i \in 1..Len(rawResponse) |->
                                          apiDefinitionResult(
                                              rawResponse[i].hw, "noun")]
                          validated == ValidateAndReturnDictionaryResults(
                                           word, Results(toResults(response)))
                      IN  ApiReturned(validated[1], validated[2], 0)
               [] OTHER -> ApiReturned(NilResults, EmptyResultError(word), 0)

Search(word, limit, body) ==
    LET request == makeAPIRequest(word, body)
        rawResponse == request.raw
    IN  IF request.err # NoError
        THEN ApiReturned(NilResults, request.err, limit)
        ELSE IF Len(rawResponse) < 1 THEN Panicked(limit)
        ELSE CASE rawResponse[1].type = "apiDefinitionResult" ->
                      ApiReturned(NilResults, EmptyResultError(word), limit)
               [] rawResponse[1].type = "apiSearchResult" ->
                      LET results == searchToResults(rawResponse)
                          cut == IF limitApplies(limit, results)
                                 THEN SubSeq(results, 1, limit) ELSE results
                          validated ==
                              ValidateAndReturnSearchResults(word, cut)
                      IN  ApiReturned(validated[1], validated[2], limit)
               [] OTHER ->
                      ApiReturned(NilResults, EmptyResultError(word), limit)

CallDefine ==
    /\ ~waDefine.called
    /\ waDefine' = Define(waWord, waBody)
    /\ UNCHANGED <<waWord, waBody, waSearch>>

CallSearch ==
    /\ ~waSearch.called
    /\ \E limit \in SearchLimits : waSearch' = Search(waWord, limit, waBody)
    /\ UNCHANGED <<waWord, waBody, waDefine>>

\* The shape of the response body.
BodyShape ==
    IF waBody = <<>> THEN "empty"
    ELSE IF \A i \in 1..Len(waBody) : waBody[i].json = "string" THEN "search"
    ELSE IF \A i \in 1..Len(waBody) : waBody[i].json = "object"
         THEN "definition"
    ELSE IF waBody[1].json \notin {"string", "object"} THEN "unknown"
    ELSE "undecodable"

Succeeded(returned) ==
    /\ returned.called
    /\ ~returned.panic
    /\ returned.err = NoError
    /\ ~returned.results.isNil

FailedEmpty(returned) ==
    /\ returned.called
    /\ ~returned.panic
    /\ returned.err = EmptyResultError(waWord)
    /\ returned.results = NilResults

\* C25: for a response that decodes, Define returns results exactly when
\* the items are definitions and Search exactly when they are search
\* results, each returning EmptyResultError with the query word otherwise,
\* an empty response and one of unknown shape included; so at most one of
\* the two succeeds on one response, and neither reads element 0 of an
\* empty response.
C25_ShapeDecidesDefineAndSearch ==
    /\ ~waDefine.panic
    /\ ~waSearch.panic
    /\ BodyShape # "undecodable" =>
          /\ waDefine.called =>
                IF BodyShape = "definition" THEN Succeeded(waDefine)
                ELSE FailedEmpty(waDefine)
          /\ waSearch.called =>
                IF BodyShape = "search" THEN Succeeded(waSearch)
                ELSE FailedEmpty(waSearch)
          /\ ~(Succeeded(waDefine) /\ Succeeded(waSearch))

\* Define and Search were both called on a response of search results:
\* Search returned them and Define returned EmptyResultError.
C25_Witness ==
    /\ BodyShape = "search"
    /\ Len(waBody) = 2
    /\ Succeeded(waSearch)
    /\ FailedEmpty(waDefine)

\* C28: for a limit of one or more and a response of search results,
\* Search returns at most limit results, the first of the response.
C28_SearchHonoursLimit ==
    (waSearch.called /\ waSearch.limit >= 1 /\ BodyShape = "search") =>
        /\ Succeeded(waSearch)
        /\ Len(waSearch.results.items) <= waSearch.limit
        /\ waSearch.results.items
               = SubSeq(searchToResults(waBody), 1,
                        Len(waSearch.results.items))

IdleWebsterApi ==
    /\ waWord = ""
    /\ waBody = <<>>
    /\ waDefine = [NotCalled EXCEPT !.called = TRUE]
    /\ waSearch = [NotCalled EXCEPT !.called = TRUE]

(***************************************************************************)
(* Specifications                                                          *)
(***************************************************************************)
SpecSortInit == InitSort /\ IdleValidate /\ IdlePrint /\ IdleOxford /\ IdleWebster
    /\ IdleXml
    /\ IdleWebsterResults
    /\ IdleOxfordDefine
    /\ IdleFormat
    /\ IdleWriter
    /\ IdleConfig
    /\ IdleProvide
    /\ IdleFinalize
    /\ IdleOxfordSearch
    /\ IdleWebsterApi
SpecSortNext ==
    /\ CallSortForPrimaryResult
    /\ UNCHANGED <<varsValidate, varsPrint, varsOxford, varsWebster,
                   varsXml,
                   varsWebsterResults,
                   varsOxfordDefine,
                   varsFormat,
                   varsWriter,
                   varsConfig,
                   varsProvide,
                   varsFinalize,
                   varsOxfordSearch,
                   varsWebsterApi>>
SpecSort == SpecSortInit /\ [][SpecSortNext]_vars

SpecValidateInit == InitValidate /\ IdleSort /\ IdlePrint /\ IdleOxford /\ IdleWebster
    /\ IdleXml
    /\ IdleWebsterResults
    /\ IdleOxfordDefine
    /\ IdleFormat
    /\ IdleWriter
    /\ IdleConfig
    /\ IdleProvide
    /\ IdleFinalize
    /\ IdleOxfordSearch
    /\ IdleWebsterApi
SpecValidateNext ==
    /\ \/ CallValidateDictionaryResults
       \/ CallValidateAndReturnDictionaryResults
    /\ UNCHANGED <<varsSort, varsPrint, varsOxford, varsWebster,
                   varsXml,
                   varsWebsterResults,
                   varsOxfordDefine,
                   varsFormat,
                   varsWriter,
                   varsConfig,
                   varsProvide,
                   varsFinalize,
                   varsOxfordSearch,
                   varsWebsterApi>>
SpecValidate == SpecValidateInit /\ [][SpecValidateNext]_vars

SpecPrintInit == InitPrint /\ IdleSort /\ IdleValidate /\ IdleOxford /\ IdleWebster
    /\ IdleXml
    /\ IdleWebsterResults
    /\ IdleOxfordDefine
    /\ IdleFormat
    /\ IdleWriter
    /\ IdleConfig
    /\ IdleProvide
    /\ IdleFinalize
    /\ IdleOxfordSearch
    /\ IdleWebsterApi
SpecPrintNext ==
    /\ \/ PrintResultHeader
       \/ PrintEntry
       \/ EndResult
       \/ ReturnFromPrint
    /\ UNCHANGED <<varsSort, varsValidate, varsOxford, varsWebster,
                   varsXml,
                   varsWebsterResults,
                   varsOxfordDefine,
                   varsFormat,
                   varsWriter,
                   varsConfig,
                   varsProvide,
                   varsFinalize,
                   varsOxfordSearch,
                   varsWebsterApi>>
SpecPrint == SpecPrintInit /\ [][SpecPrintNext]_vars

SpecOxfordInit ==
    InitOxford /\ IdleSort /\ IdleValidate /\ IdlePrint /\ IdleWebster
    /\ IdleXml
    /\ IdleWebsterResults
    /\ IdleOxfordDefine
    /\ IdleFormat
    /\ IdleWriter
    /\ IdleConfig
    /\ IdleProvide
    /\ IdleFinalize
    /\ IdleOxfordSearch
    /\ IdleWebsterApi
SpecOxfordNext ==
    /\ CallToEntry
    /\ UNCHANGED <<varsSort, varsValidate, varsPrint, varsWebster,
                   varsXml,
                   varsWebsterResults,
                   varsOxfordDefine,
                   varsFormat,
                   varsWriter,
                   varsConfig,
                   varsProvide,
                   varsFinalize,
                   varsOxfordSearch,
                   varsWebsterApi>>
SpecOxford == SpecOxfordInit /\ [][SpecOxfordNext]_vars

SpecWebsterInit ==
    InitWebster /\ IdleSort /\ IdleValidate /\ IdlePrint /\ IdleOxford
    /\ IdleXml
    /\ IdleWebsterResults
    /\ IdleOxfordDefine
    /\ IdleFormat
    /\ IdleWriter
    /\ IdleConfig
    /\ IdleProvide
    /\ IdleFinalize
    /\ IdleOxfordSearch
    /\ IdleWebsterApi
SpecWebsterNext ==
    /\ \/ NextApiSense
       \/ NextContainer
       \/ EndApiSense
       \/ ReturnSenses
    /\ UNCHANGED <<varsSort, varsValidate, varsPrint, varsOxford,
                   varsXml,
                   varsWebsterResults,
                   varsOxfordDefine,
                   varsFormat,
                   varsWriter,
                   varsConfig,
                   varsProvide,
                   varsFinalize,
                   varsOxfordSearch,
                   varsWebsterApi>>
SpecWebster == SpecWebsterInit /\ [][SpecWebsterNext]_vars

SpecXmlInit ==
    InitXml /\ IdleSort /\ IdleValidate /\ IdlePrint /\ IdleOxford
    /\ IdleWebster
    /\ IdleWebsterResults
    /\ IdleOxfordDefine
    /\ IdleFormat
    /\ IdleWriter
    /\ IdleConfig
    /\ IdleProvide
    /\ IdleFinalize
    /\ IdleOxfordSearch
    /\ IdleWebsterApi
SpecXmlNext ==
    /\ \/ DecodeToken
       \/ ReturnFromUnmarshalXML
    /\ UNCHANGED <<varsSort, varsValidate, varsPrint, varsOxford,
                   varsWebster,
                   varsWebsterResults,
                   varsOxfordDefine,
                   varsFormat,
                   varsWriter,
                   varsConfig,
                   varsProvide,
                   varsFinalize,
                   varsOxfordSearch,
                   varsWebsterApi>>
SpecXml == SpecXmlInit /\ [][SpecXmlNext]_vars

SpecWebsterResultsInit ==
    InitWebsterResults /\ IdleSort /\ IdleValidate /\ IdlePrint /\ IdleOxford
    /\ IdleWebster /\ IdleXml
    /\ IdleOxfordDefine
    /\ IdleFormat
    /\ IdleWriter
    /\ IdleConfig
    /\ IdleProvide
    /\ IdleFinalize
    /\ IdleOxfordSearch
    /\ IdleWebsterApi
SpecWebsterResultsNext ==
    /\ CallToResults
    /\ UNCHANGED <<varsSort, varsValidate, varsPrint, varsOxford,
                   varsWebster, varsXml,
                   varsOxfordDefine,
                   varsFormat,
                   varsWriter,
                   varsConfig,
                   varsProvide,
                   varsFinalize,
                   varsOxfordSearch,
                   varsWebsterApi>>
SpecWebsterResults == SpecWebsterResultsInit /\ [][SpecWebsterResultsNext]_vars

SpecOxfordDefineInit ==
    InitOxfordDefine /\ IdleSort /\ IdleValidate /\ IdlePrint /\ IdleOxford
    /\ IdleWebster /\ IdleXml /\ IdleWebsterResults
    /\ IdleFormat
    /\ IdleWriter
    /\ IdleConfig
    /\ IdleProvide
    /\ IdleFinalize
    /\ IdleOxfordSearch
    /\ IdleWebsterApi
SpecOxfordDefineNext ==
    /\ \/ LookupDefinition
       \/ SearchForInflection
    /\ UNCHANGED <<varsSort, varsValidate, varsPrint, varsOxford,
                   varsWebster, varsXml, varsWebsterResults,
                   varsFormat,
                   varsWriter,
                   varsConfig,
                   varsProvide,
                   varsFinalize,
                   varsOxfordSearch,
                   varsWebsterApi>>
SpecOxfordDefine == SpecOxfordDefineInit /\ [][SpecOxfordDefineNext]_vars

\* Define runs on: a call that can take a step takes one.
SpecOxfordDefineLive == SpecOxfordDefine /\ WF_vars(SpecOxfordDefineNext)

SpecFormatInit ==
    InitFormat /\ IdleSort /\ IdleValidate /\ IdlePrint /\ IdleOxford
    /\ IdleWebster /\ IdleXml /\ IdleWebsterResults /\ IdleOxfordDefine
    /\ IdleWriter
    /\ IdleConfig
    /\ IdleProvide
    /\ IdleFinalize
    /\ IdleOxfordSearch
    /\ IdleWebsterApi
SpecFormatNext ==
    /\ \/ CallPronunciationsString
       \/ CallGetPronunciationsText
       \/ CallAttributedTextString
    /\ UNCHANGED <<varsSort, varsValidate, varsPrint, varsOxford,
                   varsWebster, varsXml, varsWebsterResults,
                   varsOxfordDefine,
                   varsWriter,
                   varsConfig,
                   varsProvide,
                   varsFinalize,
                   varsOxfordSearch,
                   varsWebsterApi>>
SpecFormat == SpecFormatInit /\ [][SpecFormatNext]_vars

SpecWriterInit ==
    InitWriter /\ IdleSort /\ IdleValidate /\ IdlePrint /\ IdleOxford
    /\ IdleWebster /\ IdleXml /\ IdleWebsterResults /\ IdleOxfordDefine
    /\ IdleFormat
    /\ IdleConfig
    /\ IdleProvide
    /\ IdleFinalize
    /\ IdleOxfordSearch
    /\ IdleWebsterApi
SpecWriterNext ==
    /\ \/ CallIndentWrites
       \/ CallIndentWritesBy
       \/ ReturnFromCallback
       \/ CallWriteString
       \/ CallWriteStringLine
       \/ FinishWriting
    /\ UNCHANGED <<varsSort, varsValidate, varsPrint, varsOxford,
                   varsWebster, varsXml, varsWebsterResults,
                   varsOxfordDefine, varsFormat,
                   varsConfig,
                   varsProvide,
                   varsFinalize,
                   varsOxfordSearch,
                   varsWebsterApi>>
SpecWriter == SpecWriterInit /\ [][SpecWriterNext]_vars

SpecConfigInit ==
    InitConfig /\ IdleSort /\ IdleValidate /\ IdlePrint /\ IdleOxford
    /\ IdleWebster /\ IdleXml /\ IdleWebsterResults /\ IdleOxfordDefine
    /\ IdleFormat /\ IdleWriter
    /\ IdleProvide
    /\ IdleFinalize
    /\ IdleOxfordSearch
    /\ IdleWebsterApi
SpecConfigNext ==
    /\ \/ ParseFlags
       \/ LoadConfigFile
       \/ MergeAndReturn
    /\ UNCHANGED <<varsSort, varsValidate, varsPrint, varsOxford,
                   varsWebster, varsXml, varsWebsterResults,
                   varsOxfordDefine, varsFormat, varsWriter,
                   varsProvide,
                   varsFinalize,
                   varsOxfordSearch,
                   varsWebsterApi>>
SpecConfig == SpecConfigInit /\ [][SpecConfigNext]_vars

SpecConfigZeroDefaultsInit == SpecConfigInit
SpecConfigZeroDefaultsNext ==
    /\ \/ ParseFlagsZeroDefaults
       \/ LoadConfigFile
       \/ MergeFileBeforeEnvironment
    /\ UNCHANGED <<varsSort, varsValidate, varsPrint, varsOxford,
                   varsWebster, varsXml, varsWebsterResults,
                   varsOxfordDefine, varsFormat, varsWriter,
                   varsProvide,
                   varsFinalize,
                   varsOxfordSearch,
                   varsWebsterApi>>
SpecConfigZeroDefaults ==
    SpecConfigZeroDefaultsInit /\ [][SpecConfigZeroDefaultsNext]_vars

SpecProvideInit ==
    InitProvide /\ IdleSort /\ IdleValidate /\ IdlePrint /\ IdleOxford
    /\ IdleWebster /\ IdleXml /\ IdleWebsterResults /\ IdleOxfordDefine
    /\ IdleFormat /\ IdleWriter /\ IdleConfig
    /\ IdleFinalize
    /\ IdleOxfordSearch
    /\ IdleWebsterApi
SpecProvideNext ==
    /\ \/ CallProvidePreferred
       \/ NextProviderConf
       \/ ReturnFromProvidePreferred
    /\ UNCHANGED <<varsSort, varsValidate, varsPrint, varsOxford,
                   varsWebster, varsXml, varsWebsterResults,
                   varsOxfordDefine, varsFormat, varsWriter, varsConfig,
                   varsFinalize,
                   varsOxfordSearch,
                   varsWebsterApi>>
SpecProvide == SpecProvideInit /\ [][SpecProvideNext]_vars

SpecFinalizeInit ==
    InitFinalize /\ IdleSort /\ IdleValidate /\ IdlePrint /\ IdleOxford
    /\ IdleWebster /\ IdleXml /\ IdleWebsterResults /\ IdleOxfordDefine
    /\ IdleFormat /\ IdleWriter /\ IdleConfig /\ IdleProvide
    /\ IdleOxfordSearch
    /\ IdleWebsterApi
SpecFinalizeNext ==
    /\ CallFinalize
    /\ UNCHANGED <<varsSort, varsValidate, varsPrint, varsOxford,
                   varsWebster, varsXml, varsWebsterResults,
                   varsOxfordDefine, varsFormat, varsWriter, varsConfig,
                   varsProvide,
                   varsOxfordSearch,
                   varsWebsterApi>>
SpecFinalize == SpecFinalizeInit /\ [][SpecFinalizeNext]_vars

SpecOxfordSearchInit ==
    InitOxfordSearch /\ IdleSort /\ IdleValidate /\ IdlePrint /\ IdleOxford
    /\ IdleWebster /\ IdleXml /\ IdleWebsterResults /\ IdleOxfordDefine
    /\ IdleFormat /\ IdleWriter /\ IdleConfig /\ IdleProvide /\ IdleFinalize
    /\ IdleWebsterApi
SpecOxfordSearchNext ==
    /\ \/ SortResultsByScore
       \/ ReturnSearchResults
    /\ UNCHANGED <<varsSort, varsValidate, varsPrint, varsOxford,
                   varsWebster, varsXml, varsWebsterResults,
                   varsOxfordDefine, varsFormat, varsWriter, varsConfig,
                   varsProvide, varsFinalize,
                   varsWebsterApi>>
SpecOxfordSearch == SpecOxfordSearchInit /\ [][SpecOxfordSearchNext]_vars

SpecWebsterApiInit ==
    InitWebsterApi /\ IdleSort /\ IdleValidate /\ IdlePrint /\ IdleOxford
    /\ IdleWebster /\ IdleXml /\ IdleWebsterResults /\ IdleOxfordDefine
    /\ IdleFormat /\ IdleWriter /\ IdleConfig /\ IdleProvide /\ IdleFinalize
    /\ IdleOxfordSearch
SpecWebsterApiNext ==
    /\ \/ CallDefine
       \/ CallSearch
    /\ UNCHANGED <<varsSort, varsValidate, varsPrint, varsOxford,
                   varsWebster, varsXml, varsWebsterResults,
                   varsOxfordDefine, varsFormat, varsWriter, varsConfig,
                   varsProvide, varsFinalize, varsOxfordSearch>>
SpecWebsterApi == SpecWebsterApiInit /\ [][SpecWebsterApiNext]_vars

====
